---- MODULE Spec2Model ----
(***************************************************************************)
(* Model of the content pipeline of backend/pipeline.py (the LangGraph     *)
(* workflow load_prompts -> generator -> formatter -> validator ->         *)
(* retry/done/fail driven by ContentPipeline.run) and of the /reformat     *)
(* handler of backend/app.py, which drives the same node functions by      *)
(* hand.                                                                   *)
(*                                                                         *)
(* Strings that the code inspects (content types, model names) are         *)
(* sequences of characters, so that upper(), lower() and the substring     *)
(* test `"claude" in name.lower()` are computed.  Texts the code only      *)
(* passes around (prompts, drafts, formatter outputs) are opaque names.    *)
(***************************************************************************)
EXTENDS Integers, Sequences, FiniteSets, TLC

\* ------------------------------------------------------------------------
\* Bounds of the model
\* ------------------------------------------------------------------------

\* largest value of the environment variable MAX_FORMATTER_RETRIES explored
MaxRetries == 3

\* ------------------------------------------------------------------------
\* Program constants
\* ------------------------------------------------------------------------

\* generator_node: max_input_chars
max_input_chars == 500000

\* ContentPipeline.run: config = {"recursion_limit": 10}
recursion_limit == 10

\* Python's None (also what dict.get returns for an absent key)
None == "<None>"

\* ------------------------------------------------------------------------
\* Character strings
\* ------------------------------------------------------------------------

LowerAlpha ==
  <<"a","b","c","d","e","f","g","h","i","j","k","l","m",
    "n","o","p","q","r","s","t","u","v","w","x","y","z">>

UpperAlpha ==
  <<"A","B","C","D","E","F","G","H","I","J","K","L","M",
    "N","O","P","Q","R","S","T","U","V","W","X","Y","Z">>

\* str.upper() on one character
UpperChar(c) ==
  IF \E i \in 1..26 : LowerAlpha[i] = c
  THEN UpperAlpha[CHOOSE i \in 1..26 : LowerAlpha[i] = c]
  ELSE c

\* str.lower() on one character
LowerChar(c) ==
  IF \E i \in 1..26 : UpperAlpha[i] = c
  THEN LowerAlpha[CHOOSE i \in 1..26 : UpperAlpha[i] = c]
  ELSE c

Upper(s) == [i \in 1..Len(s) |-> UpperChar(s[i])]

Lower(s) == [i \in 1..Len(s) |-> LowerChar(s[i])]

\* Python's `sub in s`
Contains(sub, s) ==
  \E i \in 1..(Len(s) - Len(sub) + 1) : SubSeq(s, i, i + Len(sub) - 1) = sub

S_MCQ == <<"M","C","Q">>

S_NMCQ == <<"N","M","C","Q">>

S_SUMMARY == <<"S","U","M","M","A","R","Y">>

S_claude == <<"c","l","a","u","d","e">>

S_gemini == <<"g","e","m","i","n","i">>

\* ------------------------------------------------------------------------
\* Inputs explored
\* ------------------------------------------------------------------------

\* content_type values a caller may pass to run / reformat
ContentTypeInputs ==
  { <<"m","c","q">>,
    <<"N","M","C","Q">>,
    <<"S","u","m","m","a","r","y">>,
    <<"e","s","s","a","y">> }

\* generator_model values a caller may pass
ModelInputs ==
  { <<"c","l","a","u","d","e","-","3">>,
    <<"G","e","m","i","n","i","-","p","r","o">>,
    <<"g","p","t","-","4">> }

\* len(input_text): at the ceiling and one past it
InputLens == { max_input_chars, max_input_chars + 1 }

\* text a generator model call may return
Drafts == { "DRAFT" }

\* text a formatter model call may return: the empty string, a line of
\* whitespace, a well-formed MCQ document, a well-formed summary document, a
\* malformed document
FormatterTexts == { "", " ", "Q_OK", "S_OK", "BAD" }

\* a model call that raised after tenacity gave up
CallFailed == "<CallFailed>"

\* ------------------------------------------------------------------------
\* Structural validators, on the sample documents
\* ------------------------------------------------------------------------
\* "Q_OK" is the MCQ document of tests/test_validators.py test_valid_mcq_format
\* (title, vignette, options A-D, answer, explanation, analysis, key insights);
\* "S_OK" is the two-line document
\*     High Yield Points: ...  /  Key Insights: <more than 20 characters>
\* "BAD" is the one-line document "lorem ipsum".

\* ValidationError; the message is its question or vignette number (0 when
\* it names none) and its text
\* line_number is Optional[int]: <<n>> for the number n, <<>> for None
VError(line, message, section) ==
  [line |-> <<line>>, message |-> message, section |-> section]

\* a ValidationError whose line_number is None
VErrorNoLine(message, section) ==
  [line |-> <<>>, message |-> message, section |-> section]

Msg(number, text) == [number |-> number, text |-> text]

\* model_ids.get(stage) of a stage that stored no model id
NoId == <<>>

Verdict(errors) == [is_valid |-> Len(errors) = 0, errors |-> errors]

\* A line of a document, by the patterns of MCQValidator that match it once
\* stripped: "blank", "title" (title_pattern), "option" (option_pattern, with
\* its first character), "answer" (correct_answer_pattern, with its last
\* character), "explanation" (explanation_header_pattern), "analysis"
\* (analysis_header_pattern), "key_insights" (key_insights_pattern), and
\* "text" for any other non-empty line.
Line(kind) == [kind |-> kind, letter |-> ""]

Opt(letter) == [kind |-> "option", letter |-> letter]

Ans(letter) == [kind |-> "answer", letter |-> letter]

Blank == Line("blank")

IsBlank(l) == l.kind = "blank"

\* content.strip().split('\n'): blank lines at both ends are dropped, and
\* the empty string splits into one empty line
StripSplit(raw) ==
  LET solid == { j \in DOMAIN raw : ~IsBlank(raw[j]) } IN
  IF solid = {}
  THEN <<Blank>>
  ELSE SubSeq(raw,
              CHOOSE j \in solid : \A k \in solid : j <= k,
              CHOOSE j \in solid : \A k \in solid : j >= k)

\* the sample documents, line by line
SampleLines(content) ==
  CASE content = "Q_OK" ->
         <<Line("title"), Line("text"), Blank,
           Opt("A"), Opt("B"), Opt("C"), Opt("D"), Blank,
           Ans("B"), Blank,
           Line("explanation"), Line("text"), Blank,
           Line("analysis"), Opt("A"), Opt("C"), Opt("D"), Blank,
           Line("key_insights")>>
    [] content = "S_OK" -> <<Line("text"), Line("key_insights")>>
    [] content = "BAD" -> <<Line("text")>>
    [] content = " " -> <<Blank>>
    [] OTHER -> <<>>

\* `while i < len(lines) and not lines[i].strip(): i += 1` (i counts from 1)
SkipBlank(lines, i) ==
  LET rest == { j \in i..Len(lines) : ~IsBlank(lines[j]) } IN
  IF rest = {} THEN (IF i > Len(lines) THEN i ELSE Len(lines) + 1)
  ELSE CHOOSE j \in rest : \A k \in rest : j <= k

\* `while i < len(lines): if <line matches one of kinds>: break; i += 1`
SkipTo(lines, i, kinds) ==
  LET hits == { j \in i..Len(lines) : lines[j].kind \in kinds } IN
  IF hits = {} THEN (IF i > Len(lines) THEN i ELSE Len(lines) + 1)
  ELSE CHOOSE j \in hits : \A k \in hits : j <= k

\* ValidationError(i + 1 if i < len(lines) else None, message, section), for
\* the cursor counted from 1
VErrorAt(lines, i, message, section) ==
  IF i <= Len(lines) THEN VError(i, message, section)
  ELSE VErrorNoLine(message, section)

\* variant: only A to D are expected
ExpectedOptions_four(n) ==
  SubSeq(<<"A", "B", "C", "D">>, 1, IF n < 4 THEN n ELSE 4)

\* ['A', 'B', 'C', 'D', 'E'][:n]
ExpectedOptions(n) == SubSeq(<<"A", "B", "C", "D", "E">>, 1, IF n < 5 THEN n ELSE 5)

\* variant: the five letters the answer pattern admits
AnswerInOptions_pattern(answer_letter, options_found) ==
  answer_letter \in {"A", "B", "C", "D", "E"}

\* `answer_letter in options_found`
AnswerInOptions(answer_letter, options_found) ==
  \E j \in DOMAIN options_found : options_found[j] = answer_letter

\* The validator at work on one question: the cursor i (counted from 1), the
\* line of the question's title, the question's number, the option letters
\* found and the errors collected so far.
AtTitle(t, question_count, errors) ==
  [i |-> t + 1, question_start |-> t, question_count |-> question_count,
   options_found |-> <<>>, errors |-> errors]

\* 2. vignette: everything before the first option line
check_vignette(lines, s) ==
  LET o == SkipTo(lines, s.i, {"option"}) IN
  [s EXCEPT
     !.i = o,
     !.errors =
       IF \E j \in s.i..(o - 1) : ~IsBlank(lines[j]) THEN @
       ELSE Append(@, VError(s.question_start + 1,
                             Msg(s.question_count, "Missing vignette/stem"),
                             "Vignette"))]

\* 3. options: the run of option lines from the cursor on
check_options(lines, s) ==
  LET options_found ==
        [j \in 1..(SkipTo(lines, s.i, {"blank", "title", "answer",
                                        "explanation", "analysis",
                                        "key_insights", "text"}) - s.i)
           |-> lines[s.i + j - 1].letter]
  IN
  [s EXCEPT
     !.i = s.i + Len(options_found),
     !.options_found = options_found,
     !.errors =
       @ \o (IF Len(options_found) < 4 \/ Len(options_found) > 5
             THEN <<VError(s.i,
                           Msg(s.question_count, "Found options, expected 4-5"),
                           "Options")>>
             ELSE <<>>)
         \o (IF options_found # ExpectedOptions(Len(options_found))
             THEN <<VError(s.i,
                           Msg(s.question_count, "Options not in sequence"),
                           "Options")>>
             ELSE <<>>)]

\* 4. correct answer
check_answer(lines, s) ==
  LET c == SkipBlank(lines, s.i) IN
  IF c <= Len(lines) /\ lines[c].kind = "answer"
  THEN [s EXCEPT
          !.i = c + 1,
          !.errors =
            IF s.options_found # <<>>
               /\ ~AnswerInOptions(lines[c].letter, s.options_found)
            THEN Append(@, VError(c, Msg(s.question_count,
                                         "Correct answer not in options"),
                                  "Answer"))
            ELSE @]
  ELSE [s EXCEPT
          !.i = c,
          !.errors =
            Append(@, VErrorAt(lines, c,
                               Msg(s.question_count,
                                   "Missing or invalid 'Correct Answer:' line"),
                               "Answer"))]

\* a section was not found with the cursor at line i
Missing(lines, s, i, text, section) ==
  [s EXCEPT
     !.i = i,
     !.errors = Append(@, VErrorAt(lines, i, Msg(s.question_count, text),
                                   section))]

\* 5. explanation: header, then content
check_explanation(lines, s) ==
  LET x == SkipBlank(lines, s.i) IN
  IF x <= Len(lines) /\ lines[x].kind = "explanation"
  THEN IF SkipBlank(lines, x + 1) <= Len(lines)
       THEN [s EXCEPT !.i = SkipTo(lines, SkipBlank(lines, x + 1),
                                   {"analysis", "key_insights"})]
       ELSE Missing(lines, s, SkipBlank(lines, x + 1),
                    "Missing explanation section", "Explanation")
  ELSE Missing(lines, s, x, "Missing explanation section", "Explanation")

\* 6. analysis of other options
check_analysis(lines, s) ==
  LET y == SkipBlank(lines, s.i) IN
  IF y <= Len(lines) /\ lines[y].kind = "analysis"
  THEN [s EXCEPT !.i = SkipTo(lines, y + 1, {"key_insights", "title"})]
  ELSE Missing(lines, s, y, "Missing 'Analysis of Other Options' section",
               "Analysis")

\* 7. key insights
check_key_insights(lines, s) ==
  LET k == SkipBlank(lines, s.i) IN
  IF k <= Len(lines) /\ lines[k].kind = "key_insights"
  THEN [s EXCEPT !.i = SkipTo(lines, k + 1, {"title"})]
  ELSE Missing(lines, s, k, "Missing 'Key Insights' section", "Key Insights")

\* MCQValidator.validate, steps 2 to 7 for the question whose title is
\* lines[t]
MCQQuestion(lines, t, question_count, errors) ==
  check_key_insights(lines,
    check_analysis(lines,
      check_explanation(lines,
        check_answer(lines,
          check_options(lines,
            check_vignette(lines, AtTitle(t, question_count, errors)))))))

RECURSIVE MCQQuestions(_, _, _, _)
\* MCQValidator.validate, the `while i < len(lines)` loop: cursor i,
\* question_count questions seen, errors collected so far
MCQQuestions(lines, i, question_count, errors) ==
  LET t == SkipBlank(lines, i) IN
  IF i > Len(lines) \/ t > Len(lines)
  THEN Verdict(errors)
  ELSE IF lines[t].kind # "title"
  THEN IF question_count = 0
       THEN [is_valid |-> FALSE,
             errors |-> Append(errors,
               VError(t, Msg(0, "Content must start with a question title"),
                      "Format"))]
       ELSE Verdict(errors)
  ELSE LET q == MCQQuestion(lines, t, question_count + 1, errors) IN
       MCQQuestions(lines, q.i, q.question_count, q.errors)

\* MCQValidator.validate on the lines of the content as given
MCQValidateLines(raw) == MCQQuestions(StripSplit(raw), 1, 0, <<>>)

\* MCQValidator.validate on a sample document
MCQValidate(content) == MCQValidateLines(SampleLines(content))

\* A line of an NMCQ document, by what NMCQValidator makes of it once
\* stripped: "blank"; "title" (title_pattern); "qa_header"
\* (qa_header_pattern); "question" (question_pattern, with its number and
\* the type as written); "answer" (answer_pattern, with its stripped value);
\* "explanation" (explanation_pattern); "options" (a line that starts with
\* 'Options:', with the number of items its remainder splits into on ',' and
\* '|'); and "text" for any other non-empty line.
NLine(kind) == [kind |-> kind, num |-> 0, digits |-> 0, q_type |-> <<>>,
                value |-> "", items |-> 0]

\* a question line: its number, the digits the number is written with
\* (leading zeros included) and its type
NQuestion(num, q_type) == [NLine("question") EXCEPT !.num = num,
                                                     !.digits = 1,
                                                     !.q_type = q_type]

\* sys.int_info.default_max_str_digits of CPython 3.11 and later: int() of
\* a longer digit string raises ValueError; 0 stands for no limit
int_max_str_digits == 4300

\* the limits a build may run with
IntLimits == {0, int_max_str_digits}

Max(a, b) == IF a >= b THEN a ELSE b

\* validate left by an exception: no verdict was returned
Raised(exc) == [raised |-> exc, is_valid |-> FALSE, errors |-> <<>>]

NAnswer(value) == [NLine("answer") EXCEPT !.value = value]

NOptions(items) == [NLine("options") EXCEPT !.items = items]

NBlank == NLine("blank")

S_drop == <<"d","r","o","p">>

S_true_false == <<"t","r","u","e","/","f","a","l","s","e">>

S_yes_no == <<"y","e","s","/","n","o">>

\* the message of an NMCQ error: the vignette's number, the question's
\* number (0 when it names none) and the text
NMsg(vignette, question, text) ==
  [number |-> vignette, question |-> question, text |-> text]

\* the type alternatives of question_pattern, lower-cased:
\* True/False | Yes/No | Drop Down Question[s]? | Drop-?Down(?: Question[s]?)?
S_drop_down == <<"d","r","o","p"," ","d","o","w","n">>

S_dropdown == <<"d","r","o","p","d","o","w","n">>

S_drop_dash_down == <<"d","r","o","p","-","d","o","w","n">>

S_question == <<" ","q","u","e","s","t","i","o","n">>

\* question_pattern (re.IGNORECASE) matches a numbered line of this type
QuestionTypeMatches(q_type) ==
  \/ Lower(q_type) \in {S_true_false, S_yes_no}
  \/ Lower(q_type) \in {S_drop_down \o S_question \o s : s \in {<<>>, <<"s">>}}
  \/ \E d \in {S_dropdown, S_drop_dash_down} :
       Lower(q_type) \in {d} \cup {d \o S_question \o s : s \in {<<>>, <<"s">>}}

\* what the patterns make of the lines as written: a numbered line whose
\* type question_pattern does not match is a line of text
Classify(lines) ==
  [j \in DOMAIN lines |->
     IF lines[j].kind = "question" /\ ~QuestionTypeMatches(lines[j].q_type)
     THEN NLine("text") ELSE lines[j]]


\* The validator at work on one vignette: the cursor i (counted from 1), the
\* line the vignette starts at, its number, the questions counted in it, the
\* line of the question at hand and the errors collected so far.
AtVignette(t, vignette_count, errors) ==
  [i |-> t, vignette_start |-> t, vignette_count |-> vignette_count,
   question_count |-> 0, q |-> 0, options_found |-> 0, errors |-> errors,
   converted |-> 0]

\* 1. title line
nmcq_title(lines, s) ==
  [s EXCEPT
     !.i = s.i + 1,
     !.errors =
       IF lines[s.i].kind = "title" THEN @
       ELSE Append(@, VError(s.i, NMsg(s.vignette_count, 0,
                                       "Invalid title format"), "Title"))]

\* 2. and 3. vignette body up to the header or the first question, then the
\* optional 'Questions and Answers:' header and the blank lines after it
nmcq_body(lines, s) ==
  LET b == SkipTo(lines, s.i, {"qa_header", "question"}) IN
  [s EXCEPT
     !.i = SkipBlank(lines,
                     IF b <= Len(lines) /\ lines[b].kind = "qa_header"
                     THEN b + 1 ELSE b),
     !.errors =
       IF \E j \in s.i..(b - 1) : ~IsBlank(lines[j]) THEN @
       ELSE Append(@, VError(s.vignette_start + 1,
                             NMsg(s.vignette_count, 0, "Missing vignette body"),
                             "Body"))]

\* the question line lines[c]: counted, its number compared with the count;
\* converted keeps the longest digit string int() was applied to
nmcq_number(lines, s, c) ==
  [s EXCEPT
     !.i = c + 1,
     !.q = c,
     !.question_count = @ + 1,
     !.options_found = 0,
     !.converted = Max(@, lines[c].digits),
     !.errors =
       IF lines[c].num = s.question_count + 1 THEN @
       ELSE Append(@, VError(c, NMsg(s.vignette_count, s.question_count + 1,
                                     "Question numbering error"),
                             "Question"))]

\* the options of a Drop Down question: every following non-empty line up to
\* an Answer line, a question line, an 'Options:' line (taken with its items)
\* or a blank line (taken)
nmcq_options(lines, s) ==
  IF ~Contains(S_drop, Lower(lines[s.q].q_type)) THEN s
  ELSE
    LET e == SkipTo(lines, s.i, {"answer", "question", "options", "blank"})
        stop == IF e <= Len(lines) THEN lines[e].kind ELSE "end"
        found == (e - s.i) + (IF stop = "options" THEN lines[e].items ELSE 0)
        i == IF stop \in {"options", "blank"} THEN e + 1 ELSE e
    IN
    [s EXCEPT
       !.i = i,
       !.options_found = found,
       !.errors =
         IF found >= 2 THEN @
         ELSE Append(@, VError(i - 1,
                               NMsg(s.vignette_count, s.question_count,
                                    "Drop Down requires at least 2 options"),
                               "Options"))]

\* `answer_value not in ['True', 'False']` for a True/False question,
\* `answer_value not in ['Yes', 'No']` for a Yes/No question
AnswerConforms(q_type, answer_value) ==
  IF Contains(S_true_false, Lower(q_type))
  THEN answer_value \in {"True", "False"}
  ELSE IF Contains(S_yes_no, Lower(q_type))
  THEN answer_value \in {"Yes", "No"}
  ELSE TRUE

\* the Answer line, expected at the cursor
nmcq_answer(lines, s) ==
  IF s.i <= Len(lines) /\ lines[s.i].kind = "answer"
  THEN [s EXCEPT
          !.i = s.i + 1,
          !.errors =
            IF AnswerConforms(lines[s.q].q_type, lines[s.i].value) THEN @
            ELSE Append(@, VError(s.i,
                                  NMsg(s.vignette_count, s.question_count,
                                       IF Contains(S_true_false,
                                                   Lower(lines[s.q].q_type))
                                       THEN "True/False answer must be 'True' or 'False'"
                                       ELSE "Yes/No answer must be 'Yes' or 'No'"),
                                  "Answer"))]
  ELSE [s EXCEPT
          !.errors = Append(@, VError(s.i - 1,
                                      NMsg(s.vignette_count, s.question_count,
                                           "Missing Answer"),
                                      "Answer"))]

\* the Explanation line, expected at the cursor, and the lines that
\* continue it
nmcq_explanation(lines, s) ==
  IF s.i <= Len(lines) /\ lines[s.i].kind = "explanation"
  THEN [s EXCEPT !.i = SkipTo(lines, s.i + 1, {"blank", "question", "title"})]
  ELSE [s EXCEPT
          !.errors = Append(@, VError(s.i - 1,
                                      NMsg(s.vignette_count, s.question_count,
                                           "Missing or empty Explanation"),
                                      "Explanation"))]

RECURSIVE nmcq_questions(_, _)
\* 4. the question loop of one vignette: up to the next title or the end
nmcq_questions(lines, s) ==
  LET c == SkipBlank(lines, s.i) IN
  IF s.i > Len(lines) \/ c > Len(lines) \/ lines[c].kind = "title"
  THEN [s EXCEPT !.i = c]
  ELSE IF lines[c].kind = "question"
  THEN nmcq_questions(lines,
         nmcq_explanation(lines,
           nmcq_answer(lines,
             nmcq_options(lines, nmcq_number(lines, s, c)))))
  ELSE nmcq_questions(lines, [s EXCEPT !.i = c + 1])

\* a vignette in which no question was counted
nmcq_no_questions(s) ==
  IF s.question_count # 0 THEN s
  ELSE [s EXCEPT
          !.errors = Append(@, VError(s.vignette_start + 2,
                                      NMsg(s.vignette_count, 0,
                                           "No questions found"),
                                      "Questions"))]

RECURSIVE NMCQVignettes(_, _, _, _, _)
\* NMCQValidator.validate, the `while i < len(lines)` loop: cursor i,
\* vignette_count vignettes seen, errors collected so far, the longest
\* digit string converted so far
NMCQVignettes(lines, i, vignette_count, errors, converted) ==
  LET t == SkipBlank(lines, i) IN
  IF i > Len(lines) \/ t > Len(lines)
  THEN [verdict |-> Verdict(errors), converted |-> converted]
  ELSE LET v == nmcq_no_questions(
                  nmcq_questions(lines,
                    nmcq_body(lines,
                      nmcq_title(lines,
                                 AtVignette(t, vignette_count + 1, errors)))))
       IN NMCQVignettes(lines, v.i, v.vignette_count, v.errors,
                        Max(converted, v.converted))

\* NMCQValidator.validate on the lines of the content as given, where
\* int() has no limit
NMCQValidateLines(raw) ==
  NMCQVignettes(Classify(StripSplit(raw)), 1, 0, <<>>, 0).verdict

\* NMCQValidator.validate where int() refuses more than int_limit digits
NMCQValidateLimited(raw, int_limit) ==
  IF /\ int_limit > 0
     /\ NMCQVignettes(Classify(StripSplit(raw)), 1, 0, <<>>, 0).converted
          > int_limit
  THEN Raised("ValueError")
  ELSE NMCQValidateLines(raw)

\* NMCQValidator.validate on the lines of an empty or whitespace-only
\* content: the blank-line skip reaches the end of the lines and the loop
\* ends with no error collected
NMCQValidateBlank(raw) == Verdict(<<>>)

\* NMCQValidator.validate: the first line is taken as a vignette title, the
\* lines up to the first question as its body, and a vignette without a
\* recognised question is reported
NMCQValidate(content) ==
  IF \A j \in DOMAIN SampleLines(content) : IsBlank(SampleLines(content)[j])
  THEN NMCQValidateBlank(SampleLines(content))
  ELSE IF content = "BAD"
  THEN Verdict(<<VError(1, Msg(1, "Invalid title format"), "Title"),
                 VError(2, Msg(1, "Missing vignette body"), "Body"),
                 VError(3, Msg(1, "No questions found"), "Questions")>>)
  ELSE Verdict(<<VError(1, Msg(1, "Invalid title format"), "Title"),
                 VError(3, Msg(1, "No questions found"), "Questions")>>)

\* A SUMMARY text is a sequence of lines and a line a sequence of tokens:
\* "num" (digits and a dot, as in '1.'), "hy" (the phrase 'high yield' in
\* any case), "ki" (the phrase 'key insight' in any case), "s" (the letter
\* that makes it 'Key Insights'), "colon", "sp" (one whitespace character)
\* and "text" (n characters other than whitespace at its ends, holding
\* neither phrase).  "nl" is the line break of a joined block.
Tok(kind, n) == [kind |-> kind, n |-> n]

\* len('key insight'), the offset of `block_text[key_insights_index + 11:]`
key_insight_skip == 11

\* the bound of `len(remaining_text) < 20`
min_key_insights_chars == 20

T_num == Tok("num", 2)

T_hy == Tok("hy", 10)

T_ki == Tok("ki", key_insight_skip)

T_s == Tok("s", 1)

T_colon == Tok("colon", 1)

T_sp == Tok("sp", 1)

T_nl == Tok("nl", 1)

Text(n) == Tok("text", n)

IsSpace(t) == t.kind \in {"sp", "nl"}

\* `not line.strip()`
IsBlankLine(line) == \A k \in DOMAIN line : IsSpace(line[k])

\* content.strip().split('\n'), for a content that is not blank
SummaryStripSplit(raw) ==
  LET solid == { j \in DOMAIN raw : ~IsBlankLine(raw[j]) } IN
  SubSeq(raw,
         CHOOSE j \in solid : \A k \in solid : j <= k,
         CHOOSE j \in solid : \A k \in solid : j >= k)

\* re.match(r'^\s*\d+\.', line)
IsNumbered(line) ==
  \E k \in DOMAIN line :
    /\ line[k].kind = "num"
    /\ \A h \in 1..(k - 1) : IsSpace(line[h])

\* `phrase in text.lower()` for the lines a..b of the text
HasPhrase(lines, a, b, phrase) ==
  \E j \in a..b : \E k \in DOMAIN lines[j] : lines[j][k].kind = phrase

RECURSIVE JoinLines(_, _, _)
\* '\n'.join(lines[a:b]), for a and b counted from 1, b included
JoinLines(lines, a, b) ==
  IF a > b THEN <<>>
  ELSE IF a = b THEN lines[a]
  ELSE lines[a] \o <<T_nl>> \o JoinLines(lines, a + 1, b)

\* str.strip()
StripTokens(toks) ==
  LET solid == { k \in DOMAIN toks : ~IsSpace(toks[k]) } IN
  IF solid = {} THEN <<>>
  ELSE SubSeq(toks,
              CHOOSE k \in solid : \A h \in solid : k <= h,
              CHOOSE k \in solid : \A h \in solid : k >= h)

RECURSIVE TextLen(_)
\* len(text)
TextLen(toks) ==
  IF toks = <<>> THEN 0 ELSE Head(toks).n + TextLen(Tail(toks))

\* block_text[key_insights_index + 11:].strip(), less a leading colon
RemainingText(block_text) ==
  LET at == CHOOSE k \in DOMAIN block_text :
              /\ block_text[k].kind = "ki"
              /\ \A h \in 1..(k - 1) : block_text[h].kind # "ki"
      remaining_text == StripTokens(SubSeq(block_text, at + 1, Len(block_text)))
  IN IF remaining_text # <<>> /\ remaining_text[1].kind = "colon"
     THEN StripTokens(Tail(remaining_text))
     ELSE remaining_text

\* `not remaining_text or len(remaining_text) < 20`
TooShort(remaining_text) ==
  remaining_text = <<>> \/ TextLen(remaining_text) < min_key_insights_chars

\* the line after the header at line i that opens the next block, or the
\* line past the end
BlockEnd(lines, i) ==
  LET next == { j \in (i + 1)..Len(lines) : IsNumbered(lines[j]) } IN
  IF next = {} THEN Len(lines) + 1
  ELSE CHOOSE j \in next : \A k \in next : j <= k

\* the errors of the block whose numbered header is line i (counted from 1;
\* the code reports the header's 0-based index as the line number)
BlockErrors(lines, i, current_block) ==
  (IF HasPhrase(lines, i, BlockEnd(lines, i) - 1, "hy") THEN <<>>
   ELSE <<VError(i - 1, Msg(current_block, "Missing High Yield Points section"),
                 "High Yield Points")>>)
  \o (IF HasPhrase(lines, i, BlockEnd(lines, i) - 1, "ki")
      THEN IF TooShort(RemainingText(JoinLines(lines, i, BlockEnd(lines, i) - 1)))
           THEN <<VError(i - 1,
                         Msg(current_block,
                             "Key Insights appears empty or too short"),
                         "Key Insights")>>
           ELSE <<>>
      ELSE <<VError(i - 1, Msg(current_block, "Missing Key Insights section"),
                    "Key Insights")>>)

RECURSIVE SummaryBlocks(_, _, _, _)
\* the `while i < len(lines)` loop over the lines, block by block
SummaryBlocks(lines, i, current_block, errors) ==
  IF i > Len(lines) THEN errors
  ELSE IF IsNumbered(lines[i])
  THEN SummaryBlocks(lines, i + 1, current_block + 1,
                     errors \o BlockErrors(lines, i, current_block + 1))
  ELSE SummaryBlocks(lines, i + 1, current_block, errors)

\* variant: one of the two phrases is enough for the per-block checks
HasBasicStructure_either(has_high_yield, has_key_insights) ==
  has_high_yield \/ has_key_insights

\* `if has_high_yield and has_key_insights`
HasBasicStructure(has_high_yield, has_key_insights) ==
  has_high_yield /\ has_key_insights

\* the else branch: the missing elements, each at line 0
StructureErrors(has_high_yield, has_key_insights, has_numbered_items) ==
  (IF has_high_yield THEN <<>>
   ELSE <<VError(0, Msg(0, "No 'High Yield Points' sections found"),
                 "Structure")>>)
  \o (IF has_key_insights THEN <<>>
      ELSE <<VError(0, Msg(0, "No 'Key Insights' sections found"),
                    "Structure")>>)
  \o (IF ~has_numbered_items /\ ~has_high_yield
      THEN <<VError(0, Msg(0, "No Summary Blocks found"), "Structure")>>
      ELSE <<>>)

\* SummaryValidator.validate on lines that are not all blank.  The closing
\* `if summary_count == 0 and len(errors) == 0` adds nothing: with both
\* phrases summary_count is at least 1, and without one of them errors is
\* not empty.
SummaryCheck(lines) ==
  LET has_high_yield == HasPhrase(lines, 1, Len(lines), "hy")
      has_key_insights == HasPhrase(lines, 1, Len(lines), "ki")
      has_numbered_items == \E j \in DOMAIN lines : IsNumbered(lines[j])
  IN
  IF HasBasicStructure(has_high_yield, has_key_insights)
  THEN Verdict(SummaryBlocks(lines, 1, 0, <<>>))
  ELSE Verdict(StructureErrors(has_high_yield, has_key_insights,
                               has_numbered_items))

\* SummaryValidator.validate on the lines of an empty or whitespace-only
\* content: `if not content or not content.strip()`
SummaryValidateBlank(raw) ==
  [is_valid |-> FALSE,
   errors |-> <<VError(0, Msg(0, "Empty content"), "Content")>>]

\* SummaryValidator.validate on the lines of the content as given
SummaryValidateLines(raw) ==
  IF \A j \in DOMAIN raw : IsBlankLine(raw[j])
  THEN SummaryValidateBlank(raw)
  ELSE SummaryCheck(SummaryStripSplit(raw))

\* SummaryValidator.validate: the phrases "high yield" and "key insight" must
\* occur; with both present and no numbered item the document passes
SummaryValidate(content) ==
  IF \A j \in DOMAIN SampleLines(content) : IsBlank(SampleLines(content)[j])
  THEN SummaryValidateBlank(SampleLines(content))
  ELSE IF content = "S_OK"
  THEN Verdict(<<>>)
  ELSE IF content = "Q_OK"
  THEN Verdict(<<VError(0, Msg(0, "No 'High Yield Points' sections found"),
                        "Structure"),
                 VError(0, Msg(0, "No Summary Blocks found"), "Structure")>>)
  ELSE Verdict(<<VError(0, Msg(0, "No 'High Yield Points' sections found"),
                        "Structure"),
                 VError(0, Msg(0, "No 'Key Insights' sections found"),
                        "Structure"),
                 VError(0, Msg(0, "No Summary Blocks found"), "Structure")>>)

validate_content(content, content_type) ==
  IF Upper(content_type) = S_MCQ THEN MCQValidate(content)
  ELSE IF Upper(content_type) = S_NMCQ THEN NMCQValidate(content)
  ELSE IF Upper(content_type) = S_SUMMARY THEN SummaryValidate(content)
  ELSE [is_valid |-> FALSE,
        errors |-> <<VErrorNoLine(Msg(0, "Invalid content type"), None)>>]

\* ------------------------------------------------------------------------
\* The nodes of the workflow, as functions of the PipelineState
\* ------------------------------------------------------------------------

\* Python truthiness of an Optional[str]
Truthy(x) == x # None /\ x # ""

\* PromptLoader.load_prompts: the text of each prompt file, "" when missing
load_prompts(files) == files

load_prompts_node(s, files) ==
  LET prompts == load_prompts(files) IN
  IF Upper(s.content_type) = S_MCQ
  THEN [s EXCEPT !.prompts = [generator |-> prompts.mcq_generator,
                              formatter |-> prompts.mcq_formatter]]
  ELSE IF Upper(s.content_type) = S_SUMMARY
  THEN [s EXCEPT !.prompts = [generator |-> prompts.summary_generator,
                              formatter |-> prompts.summary_formatter]]
  ELSE [s EXCEPT !.prompts = [generator |-> prompts.nmcq_generator,
                              formatter |-> prompts.nmcq_formatter]]

\* gemini_flash_model, the default of the GEMINI_FLASH environment variable
gemini_flash_model ==
  <<"g","e","m","i","n","i","-","2",".","5","-","f","l","a","s","h">>

IsClaude(model_name) == Contains(S_claude, Lower(model_name))

IsGemini(model_name) == Contains(S_gemini, Lower(model_name))

\* generator_node reaches call_claude or call_gemini
GeneratorCallsModel(s, e) ==
  /\ ~(s.input_len > max_input_chars)
  /\ \/ IsClaude(s.generator_model) /\ e.anthropic_key
     \/ ~IsClaude(s.generator_model) /\ IsGemini(s.generator_model)
                                     /\ e.google_key

GeneratorFailed(s, msg) ==
  [s EXCEPT !.success = FALSE, !.error_message = msg]

\* generator_node; out is what the model call returns (a text or CallFailed)
generator_node(s, e, out) ==
  IF s.input_len > max_input_chars
  THEN GeneratorFailed(s, "Input text exceeds 500000 character limit")
  ELSE IF IsClaude(s.generator_model) /\ ~e.anthropic_key
  THEN GeneratorFailed(s, "Generation failed: ANTHROPIC_API_KEY not set")
  ELSE IF ~IsClaude(s.generator_model) /\ IsGemini(s.generator_model)
          /\ ~e.google_key
  THEN GeneratorFailed(s, "Generation failed: GOOGLE_API_KEY not set")
  ELSE IF ~IsClaude(s.generator_model) /\ ~IsGemini(s.generator_model)
  THEN GeneratorFailed(s, "Generation failed: Unknown model")
  ELSE IF out = CallFailed
  THEN GeneratorFailed(s, "Generation failed: RetryError")
  ELSE [s EXCEPT !.draft_1 = out,
                 !.model_ids = [@ EXCEPT !.generator = s.generator_model]]

\* a formatter that reformats its own previous output when there is one
content_to_format_previous(s) ==
  IF Truthy(s.formatted_output) THEN s.formatted_output ELSE s.draft_1

\* the draft formatter_node puts into its prompt
content_to_format(s) == s.draft_1

\* a formatter that reads the prompt file again at every call
prompt_template_reread(s, files) ==
  load_prompts_node(s, files).prompts.formatter

\* the prompt template formatter_node uses: the one of the state, whatever
\* the prompt files hold by now
prompt_template(s, files) == s.prompts.formatter

\* formatter_node reaches call_gemini
FormatterCallsModel(s, e) == e.google_key

\* formatter_node; out is what the model call returns (a text or CallFailed)
formatter_node(s, e, out) ==
  IF ~e.google_key
  THEN [s EXCEPT !.success = FALSE,
                 !.error_message = "Formatting failed: GOOGLE_API_KEY not set"]
  ELSE IF out = CallFailed
  THEN [s EXCEPT !.success = FALSE,
                 !.error_message = "Formatting failed: RetryError"]
  ELSE [s EXCEPT !.formatted_output = out,
                 !.model_ids = [@ EXCEPT !.formatter = gemini_flash_model]]

validator_node(s) ==
  IF ~Truthy(s.formatted_output)
  THEN [s EXCEPT !.success = FALSE,
                 !.error_message = "No formatted output to validate"]
  ELSE LET v == validate_content(s.formatted_output, s.content_type) IN
       [s EXCEPT !.validation_errors = v.errors,
                 !.success = IF v.is_valid THEN TRUE ELSE @]

formatter_retry_node(s, e, out) ==
  formatter_node([s EXCEPT !.formatter_retries = @ + 1], e, out)

\* a retry decision that compares with <= and so allows one retry too many
should_retry_or_finish_inclusive(s, e) ==
  IF s.success THEN "done"
  ELSE IF s.formatter_retries <= e.max_formatter_retries THEN "retry"
  ELSE "fail"

should_retry_or_finish(s, e) ==
  IF s.success THEN "done"
  ELSE IF s.formatter_retries < e.max_formatter_retries THEN "retry"
  ELSE "fail"

done_node(s) == s

fail_node(s) == s

\* ------------------------------------------------------------------------
\* State
\* ------------------------------------------------------------------------

VARIABLES
  request,        \* the arguments of the call (entry point and inputs)
  env,            \* ANTHROPIC_API_KEY, GOOGLE_API_KEY, MAX_FORMATTER_RETRIES
  prompt_files,   \* the prompt files on disk
  state,          \* the PipelineState of the run
  pc,             \* the node about to execute, or "returned"
  steps,          \* supersteps the compiled graph has executed
  response,       \* what the entry point returned
  trace,          \* history: the nodes executed, in order
  content,        \* the text handed to validate_content, line by line
  blocks,         \* history: the question blocks the text was written from
  validation,     \* the content type validated and what validate returned
  call,           \* one stage's model invocation: its attempts and outcome
  heap,           \* the PipelineState objects of the concurrent runs
  runs,           \* the concurrent runs: request, position, result
  stream,         \* a streaming request: its position and events so far
  restrictions,   \* the model restrictions file
  access,         \* history: the last restrictions update and /run request
  generation      \* generator_node's inputs and the prompt it built

pipeline_vars ==
  <<request, env, prompt_files, state, pc, steps, response, trace>>

validator_vars == <<content, blocks, validation>>

call_vars == <<call>>

concurrent_vars == <<heap, runs>>

stream_vars == <<stream>>

access_vars == <<restrictions, access>>
generation_vars == <<generation>>

beyond_pipeline ==
  <<validator_vars, call_vars, concurrent_vars, stream_vars, access_vars,
    generation_vars>>

vars ==
  <<pipeline_vars, validator_vars, call_vars, concurrent_vars, stream_vars, access_vars,
    generation_vars>>

\* no validation has been asked for
NoValidation ==
  [content_type |-> <<>>, result |-> [is_valid |-> FALSE, errors |-> <<>>],
   done |-> FALSE]

ValidatorIdle ==
  /\ content = <<>>
  /\ blocks = <<>>
  /\ validation = NoValidation

\* no stage is invoking a model
CallIdle == call = [pc |-> "off"]

\* no concurrent runs
ConcurrentIdle == heap = <<>> /\ runs = <<>>

\* no streaming request
StreamIdle == stream = [pc |-> "off"]

\* MODEL_RESTRICTIONS_FILE absent: no restrictions were ever saved
NoFile == [kind |-> "absent", enabled |-> FALSE, allowed_models |-> <<>>]

NoUpdate == [status |-> 0, enabled |-> FALSE, allowed_models |-> <<>>]

NoRunRequest == [role |-> "", generator_model |-> "", status |-> 0,
                 invoked |-> FALSE]

\* generator_node has not been called
NoGeneration == [called |-> FALSE]

GenerationIdle == generation = NoGeneration

AccessIdle ==
  /\ restrictions = NoFile
  /\ access = [update |-> NoUpdate, run |-> NoRunRequest]

\* the prompt files as shipped, and with the non-MCQ formatter prompt missing
PromptFileSets ==
  { [mcq_generator |-> "mcq.generator", mcq_formatter |-> "mcq.formatter",
     nmcq_generator |-> "nonmcq.generator", nmcq_formatter |-> f,
     summary_generator |-> "summarybytes.generator",
     summary_formatter |-> "summarybytes.formatter"]
    : f \in {"nonmcq.formatter", ""} }

Environments ==
  [anthropic_key : BOOLEAN, google_key : BOOLEAN,
   max_formatter_retries : 0..MaxRetries]

\* calls of ContentPipeline.run
RunRequests ==
  [entry : {"run"}, content_type : ContentTypeInputs,
   generator_model : ModelInputs, input_len : InputLens, draft_1 : {None}]

\* POST /reformat bodies that pass the draft_1 check of reformat_content
ReformatRequests ==
  [entry : {"reformat"}, content_type : ContentTypeInputs,
   generator_model : {<<"c","l","a","u","d","e","-","3">>},
   input_len : {0}, draft_1 : Drafts]

\* ContentPipeline.run: initial_state; reformat_content: state
initial_state(r) ==
  [content_type |-> Upper(r.content_type),
   generator_model |-> r.generator_model,
   input_len |-> r.input_len,
   prompts |-> [generator |-> None, formatter |-> None],
   draft_1 |-> r.draft_1,
   formatted_output |-> None,
   validation_errors |-> <<>>,
   formatter_retries |-> 0,
   model_ids |-> [generator |-> NoId, formatter |-> NoId],
   success |-> FALSE,
   error_message |-> None]

NoResponse ==
  [kind |-> "none", success |-> FALSE, output |-> None,
   validation_errors |-> <<>>, formatter_retries |-> 0,
   model_ids |-> [generator |-> NoId, formatter |-> NoId],
   error |-> None, partial_output |-> None]

Init ==
  /\ request \in RunRequests \cup ReformatRequests
  /\ env \in Environments
  /\ prompt_files \in PromptFileSets
  /\ state = initial_state(request)
  /\ pc = IF request.entry = "run" THEN "load_prompts" ELSE "rf_load_prompts"
  /\ steps = 0
  /\ response = NoResponse
  /\ trace = <<>>
  /\ ValidatorIdle
  /\ CallIdle
  /\ ConcurrentIdle
  /\ StreamIdle
  /\ AccessIdle
  /\ GenerationIdle

\* one entry of the history
Visit(node, called, failed, input, output) ==
  [node |-> node, called |-> called, failed |-> failed, input |-> input,
   output |-> output, prompt |-> None]

\* the entry of a formatter_node execution: the prompt template it used
FormatterVisit(s, e, files, out) ==
  [Visit("formatter", FormatterCallsModel(s, e), out = CallFailed,
         content_to_format(s), out)
     EXCEPT !.prompt = prompt_template(s, files)]

\* ------------------------------------------------------------------------
\* ContentPipeline.run: the compiled workflow
\* ------------------------------------------------------------------------

\* results a generator model call can have
GeneratorOutcomes == Drafts \cup {CallFailed}

\* results a formatter model call can have
FormatterOutcomes == FormatterTexts \cup {CallFailed}

\* app.invoke executes one more node only below the recursion limit
MayStep == steps < recursion_limit

LoadPrompts ==
  /\ pc = "load_prompts"
  /\ MayStep
  /\ state' = load_prompts_node(state, prompt_files)
  /\ trace' = Append(trace, Visit("load_prompts", FALSE, FALSE, None, None))
  /\ pc' = "generator"
  /\ steps' = steps + 1
  /\ UNCHANGED <<request, env, prompt_files, response>>
  /\ UNCHANGED beyond_pipeline

Generator ==
  /\ pc = "generator"
  /\ MayStep
  /\ \E out \in IF GeneratorCallsModel(state, env)
                THEN GeneratorOutcomes ELSE {CallFailed} :
       /\ state' = generator_node(state, env, out)
       /\ trace' = Append(trace,
            Visit("generator", GeneratorCallsModel(state, env),
                  ~GeneratorCallsModel(state, env) \/ out = CallFailed,
                  None, out))
  /\ pc' = "formatter"
  /\ steps' = steps + 1
  /\ UNCHANGED <<request, env, prompt_files, response>>
  /\ UNCHANGED beyond_pipeline

Formatter ==
  /\ pc = "formatter"
  /\ MayStep
  /\ \E out \in IF FormatterCallsModel(state, env)
                THEN FormatterOutcomes ELSE {CallFailed} :
       /\ state' = formatter_node(state, env, out)
       /\ trace' = Append(trace,
            FormatterVisit(state, env, prompt_files, out))
  /\ pc' = "validator"
  /\ steps' = steps + 1
  /\ UNCHANGED <<request, env, prompt_files, response>>
  /\ UNCHANGED beyond_pipeline

Validator ==
  /\ pc = "validator"
  /\ MayStep
  /\ state' = validator_node(state)
  /\ trace' = Append(trace,
       Visit("validator", FALSE, ~Truthy(state.formatted_output),
             state.formatted_output, None))
  /\ pc' = CASE should_retry_or_finish(state', env) = "done" -> "done"
             [] should_retry_or_finish(state', env) = "retry" -> "formatter_retry"
             [] OTHER -> "fail"
  /\ steps' = steps + 1
  /\ UNCHANGED <<request, env, prompt_files, response>>
  /\ UNCHANGED beyond_pipeline

FormatterRetry ==
  /\ pc = "formatter_retry"
  /\ MayStep
  /\ \E out \in IF FormatterCallsModel(state, env)
                THEN FormatterOutcomes ELSE {CallFailed} :
       /\ state' = formatter_retry_node(state, env, out)
       /\ trace' = Append(trace,
            FormatterVisit(state, env, prompt_files, out))
  /\ pc' = "validator"
  /\ steps' = steps + 1
  /\ UNCHANGED <<request, env, prompt_files, response>>
  /\ UNCHANGED beyond_pipeline

Done ==
  /\ pc = "done"
  /\ MayStep
  /\ state' = done_node(state)
  /\ trace' = Append(trace, Visit("done", FALSE, FALSE, None, None))
  /\ pc' = "END"
  /\ steps' = steps + 1
  /\ UNCHANGED <<request, env, prompt_files, response>>
  /\ UNCHANGED beyond_pipeline

Fail ==
  /\ pc = "fail"
  /\ MayStep
  /\ state' = fail_node(state)
  /\ trace' = Append(trace, Visit("fail", FALSE, FALSE, None, None))
  /\ pc' = "END"
  /\ steps' = steps + 1
  /\ UNCHANGED <<request, env, prompt_files, response>>
  /\ UNCHANGED beyond_pipeline

\* ContentPipeline.run, "Prepare response"
prepare_response(final_state) ==
  [kind |-> "result",
   success |-> final_state.success,
   output |-> final_state.formatted_output,
   validation_errors |-> final_state.validation_errors,
   formatter_retries |-> final_state.formatter_retries,
   model_ids |-> final_state.model_ids,
   error |-> IF Truthy(final_state.error_message)
             THEN final_state.error_message ELSE None,
   partial_output |-> IF ~final_state.success
                         /\ Truthy(final_state.formatted_output)
                      THEN final_state.formatted_output ELSE None]

\* ContentPipeline.run, the except branch
exception_response(msg) ==
  [kind |-> "result", success |-> FALSE, output |-> None,
   validation_errors |-> <<>>, formatter_retries |-> 0,
   model_ids |-> [generator |-> NoId, formatter |-> NoId],
   error |-> msg, partial_output |-> None]

\* app.invoke returned final_state
Return ==
  /\ pc = "END"
  /\ response' = prepare_response(state)
  /\ pc' = "returned"
  /\ UNCHANGED <<request, env, prompt_files, state, steps, trace>>
  /\ UNCHANGED beyond_pipeline

\* app.invoke raised GraphRecursionError: the limit is reached with a node
\* still to execute
RecursionError ==
  /\ pc \in {"load_prompts", "generator", "formatter", "validator",
             "formatter_retry", "done", "fail"}
  /\ ~MayStep
  /\ response' = exception_response("Pipeline execution failed: recursion limit")
  /\ pc' = "returned"
  /\ UNCHANGED <<request, env, prompt_files, state, steps, trace>>
  /\ UNCHANGED beyond_pipeline

\* ------------------------------------------------------------------------
\* POST /reformat: reformat_content calls the node functions itself
\* ------------------------------------------------------------------------

RfLoadPrompts ==
  /\ pc = "rf_load_prompts"
  /\ state' = load_prompts_node(state, prompt_files)
  /\ trace' = Append(trace, Visit("load_prompts", FALSE, FALSE, None, None))
  /\ pc' = "rf_formatter"
  /\ UNCHANGED <<request, env, prompt_files, steps, response>>
  /\ UNCHANGED beyond_pipeline

\* HTTPException(500) raised by the except branch of reformat_content
http_error(msg) ==
  [kind |-> "http_500", success |-> FALSE, output |-> None,
   validation_errors |-> <<>>, formatter_retries |-> 0,
   model_ids |-> [generator |-> NoId, formatter |-> NoId],
   error |-> msg, partial_output |-> None]

\* "Run formatter", then `if state.get("error_message"): raise`
RfFormatter ==
  /\ pc = "rf_formatter"
  /\ \E out \in IF FormatterCallsModel(state, env)
                THEN FormatterOutcomes ELSE {CallFailed} :
       /\ state' = formatter_node(state, env, out)
       /\ trace' = Append(trace,
            FormatterVisit(state, env, prompt_files, out))
  /\ IF Truthy(state'.error_message)
     THEN /\ response' = http_error(state'.error_message)
          /\ pc' = "returned"
     ELSE /\ response' = response
          /\ pc' = "rf_validator"
  /\ UNCHANGED <<request, env, prompt_files, steps>>
  /\ UNCHANGED beyond_pipeline

\* "Validate"
RfValidator ==
  /\ pc = "rf_validator"
  /\ state' = validator_node(state)
  /\ trace' = Append(trace,
       Visit("validator", FALSE, ~Truthy(state.formatted_output),
             state.formatted_output, None))
  /\ pc' = "rf_retry"
  /\ UNCHANGED <<request, env, prompt_files, steps, response>>
  /\ UNCHANGED beyond_pipeline

\* the unconditional `state = formatter_retry_node(state)`
RfRetry ==
  /\ pc = "rf_retry"
  /\ \E out \in IF FormatterCallsModel(state, env)
                THEN FormatterOutcomes ELSE {CallFailed} :
       /\ state' = formatter_retry_node(state, env, out)
       /\ trace' = Append(trace,
            FormatterVisit(state, env, prompt_files, out))
  /\ pc' = "rf_validator2"
  /\ UNCHANGED <<request, env, prompt_files, steps, response>>
  /\ UNCHANGED beyond_pipeline

\* the second `state = validator_node(state)`
RfValidator2 ==
  /\ pc = "rf_validator2"
  /\ state' = validator_node(state)
  /\ trace' = Append(trace,
       Visit("validator", FALSE, ~Truthy(state.formatted_output),
             state.formatted_output, None))
  /\ pc' = "rf_respond"
  /\ UNCHANGED <<request, env, prompt_files, steps, response>>
  /\ UNCHANGED beyond_pipeline

\* reformat_content, "Prepare response"
reformat_response(s) ==
  [kind |-> "result",
   success |-> s.success,
   output |-> s.formatted_output,
   validation_errors |-> s.validation_errors,
   formatter_retries |-> s.formatter_retries,
   model_ids |-> [generator |-> NoId, formatter |-> NoId],
   error |-> None,
   partial_output |-> IF ~s.success /\ Truthy(s.formatted_output)
                      THEN s.formatted_output ELSE None]

RfRespond ==
  /\ pc = "rf_respond"
  /\ response' = reformat_response(state)
  /\ pc' = "returned"
  /\ UNCHANGED <<request, env, prompt_files, state, steps, trace>>
  /\ UNCHANGED beyond_pipeline

\* ------------------------------------------------------------------------
\* Specification
\* ------------------------------------------------------------------------

Next ==
  \/ LoadPrompts
  \/ Generator
  \/ Formatter
  \/ Validator
  \/ FormatterRetry
  \/ Done
  \/ Fail
  \/ Return
  \/ RecursionError
  \/ RfLoadPrompts
  \/ RfFormatter
  \/ RfValidator
  \/ RfRetry
  \/ RfValidator2
  \/ RfRespond

Spec == Init /\ [][Next]_vars

\* ------------------------------------------------------------------------
\* Reading the history
\* ------------------------------------------------------------------------

Visits(node) == { i \in DOMAIN trace : trace[i].node = node }

\* formatter invocations, first attempt and retries alike
FormatterVisits == Visits("formatter")

\* nodes that attempted a model call
ModelCalls == { i \in DOMAIN trace : trace[i].called }

\* the n-th formatter invocation (n = 1 is the first attempt, n = k + 1 is
\* retry number k)
NthFormatter(n) ==
  CHOOSE i \in FormatterVisits :
    Cardinality({ j \in FormatterVisits : j <= i }) = n

\* the formatter invocation returned a text
ProducedOutput(i) == ~trace[i].failed

\* the structural validator of the run's content type accepts the text
Accepts(text) ==
  Truthy(text) /\ validate_content(text, state.content_type).is_valid

IsRun == request.entry = "run"

Returned == pc = "returned"

\* the Generate stage of the run has failed
GenerateFailed == \E i \in Visits("generator") : trace[i].failed

\* ------------------------------------------------------------------------
\* Claims
\* ------------------------------------------------------------------------

\* C1: in a run of ContentPipeline.run the formatter is invoked at most
\* 1 + max_retries times and formatter_retries never exceeds max_retries.
C1_RetryBound ==
  IsRun =>
    /\ Cardinality(FormatterVisits) <= 1 + env.max_formatter_retries
    /\ state.formatter_retries <= env.max_formatter_retries

\* C1 witness: a run that used every retry of a budget of two.
C1_Witness ==
  /\ IsRun /\ Returned
  /\ env.max_formatter_retries = 2
  /\ Cardinality(FormatterVisits) = 3
  /\ state.formatter_retries = 2

\* C2: the generator is invoked at most once, draft_1 is written only by
\* the generator, and every formatter invocation formats that same draft_1,
\* never a formatter output.
C2_DraftWrittenOnce ==
  /\ Cardinality(Visits("generator")) <= 1
  /\ state.draft_1 # request.draft_1 =>
       \E i \in Visits("generator") :
         ~trace[i].failed /\ trace[i].output = state.draft_1
  /\ \A i \in FormatterVisits :
       /\ trace[i].input = state.draft_1
       /\ trace[i].input \notin FormatterTexts

\* C2 witness: a retry has formatted the generator's draft after an earlier
\* formatter output existed.
C2_Witness ==
  /\ IsRun
  /\ \E i \in Visits("generator") : ~trace[i].failed
  /\ Cardinality(FormatterVisits) >= 2
  /\ ProducedOutput(NthFormatter(1))
  /\ trace[NthFormatter(1)].output = "BAD"
  /\ trace[NthFormatter(2)].input = "DRAFT"

\* C3: when Generate fails the run ends in Fail: neither formatter nor
\* validator is invoked and the result has success = false, output = null,
\* formatter_retries = 0.
C3_GenerateFailureEndsRun ==
  (IsRun /\ GenerateFailed) =>
    /\ FormatterVisits = {}
    /\ Visits("validator") = {}
    /\ Returned =>
         /\ ~response.success
         /\ response.output = None
         /\ response.formatter_retries = 0

\* C4: a failed Format invocation sets failure_reason and ends the run in
\* Fail: after it no stage other than Fail executes, and the formatter is not
\* invoked again.
C4_FormatFailureEndsRun ==
  (IsRun /\ ~GenerateFailed) =>
    \A i \in FormatterVisits :
      trace[i].failed =>
        /\ Truthy(state.error_message)
        /\ \A j \in DOMAIN trace : j > i => trace[j].node = "fail"

\* the generator succeeded, the first formatter attempt produced an output
\* the validator rejects, and retry number k is the first formatter output
\* the validator accepts
FirstPassAtRetry(k) ==
  /\ ~GenerateFailed
  /\ Cardinality(FormatterVisits) = k + 1
  /\ ProducedOutput(NthFormatter(1))
  /\ Truthy(trace[NthFormatter(1)].output)
  /\ ProducedOutput(NthFormatter(k + 1))
  /\ Accepts(trace[NthFormatter(k + 1)].output)
  /\ \A n \in 1..k :
       ProducedOutput(NthFormatter(n)) => ~Accepts(trace[NthFormatter(n)].output)

\* C5: if the first formatter output fails validation and retry k
\* (1 <= k <= max_retries) is the first to pass, the run returns
\* success = true, formatter_retries = k, output = that retry's text, no
\* validation errors, with the generator invoked exactly once.
C5_PassAtRetryK ==
  \A k \in 1..env.max_formatter_retries :
    (IsRun /\ Returned /\ FirstPassAtRetry(k)) =>
      /\ response.success
      /\ response.formatter_retries = k
      /\ response.output = trace[NthFormatter(k + 1)].output
      /\ response.validation_errors = <<>>
      /\ Cardinality(Visits("generator")) = 1

\* the generator succeeded and every formatter invocation of the run
\* returned a non-empty text that the validator rejects
EveryOutputRejected ==
  /\ ~GenerateFailed
  /\ FormatterVisits # {}
  /\ \A i \in FormatterVisits :
       /\ ProducedOutput(i)
       /\ Truthy(trace[i].output)
       /\ ~Accepts(trace[i].output)

\* C6: for every max_retries >= 0, a run whose formatter outputs all fail
\* validation returns success = false, formatter_retries = max_retries,
\* non-empty validation_errors and the last attempt as partial_output.
C6_ExhaustedRetries ==
  (IsRun /\ Returned /\ EveryOutputRejected) =>
    /\ ~response.success
    /\ response.formatter_retries = env.max_formatter_retries
    /\ response.validation_errors # <<>>
    /\ response.partial_output =
         trace[NthFormatter(Cardinality(FormatterVisits))].output

\* C7: in every result of run, output is non-null only when success is
\* true; when validation failed output is null and the last formatter
\* attempt is reported only as partial_output.
C7_OutputOnlyOnSuccess ==
  (IsRun /\ Returned /\ ~GenerateFailed) =>
    /\ Truthy(response.output) => response.success
    /\ Truthy(response.partial_output) =>
         (~response.success /\ response.output = None)

\* the Validate stage has just executed on a formatted_output
JustValidated ==
  /\ trace # <<>>
  /\ trace[Len(trace)].node = "validator"
  /\ ~trace[Len(trace)].failed

\* C8: after every execution of Validate, success is true exactly when
\* validation_errors is empty, also when an earlier pass had succeeded.
C8_SuccessIffNoErrors ==
  JustValidated => (state.success <=> state.validation_errors = <<>>)

UnknownModel ==
  ~IsClaude(request.generator_model) /\ ~IsGemini(request.generator_model)

\* C9: a run whose generator_model names no known provider family is
\* reported as failed at once: no stage of it attempts a model call.
C9_UnknownModelNoCall ==
  (IsRun /\ UnknownModel) =>
    /\ ModelCalls = {}
    /\ Returned => ~response.success

UnknownContentType ==
  Upper(request.content_type) \notin {S_MCQ, S_NMCQ, S_SUMMARY}

\* C10: a run whose content_type is none of MCQ, NMCQ, SUMMARY is reported
\* as failed at once: no prompt pair of another content type is resolved
\* and neither generator nor formatter is invoked.
C10_UnknownContentTypeNoCall ==
  (IsRun /\ UnknownContentType /\ Returned) =>
    /\ ~response.success
    /\ state.prompts = [generator |-> None, formatter |-> None]
    /\ Visits("generator") = {}
    /\ FormatterVisits = {}
    /\ ModelCalls = {}

\* what a retry is said to leave alone: the draft, the prompt pair, the
\* request fields, the model ids and the error message
RetryFrame ==
  /\ state'.draft_1 = state.draft_1
  /\ state'.prompts = state.prompts
  /\ state'.content_type = state.content_type
  /\ state'.generator_model = state.generator_model
  /\ state'.input_len = state.input_len
  /\ state'.model_ids = state.model_ids
  /\ state'.error_message = state.error_message

\* a formatter_retry step, or a validator step that follows one
RetryStep ==
  \/ FormatterRetry
  \/ Validator /\ state.formatter_retries > 0

\* C30: a formatter retry and the validator pass after it change only
\* formatted_output, validation_errors and formatter_retries: draft_1, the
\* prompt pair, the request fields, model_ids and error_message stay as
\* they were.
C30_RetryFrame == [][RetryStep => RetryFrame]_vars

\* the last node executed is validator, or done or fail right after it
AfterValidatePass ==
  /\ trace # <<>>
  /\ trace[Len(trace)].node \in {"validator", "done", "fail"}
  /\ state.formatted_output # None

\* the error list of the validator for the formatted_output of the state
CurrentErrors ==
  validate_content(state.formatted_output, state.content_type).errors

\* C31: after each validator pass, validation_errors is the validator's
\* error list for the current formatted_output, in the state and in the
\* result built from it: errors of an earlier pass do not survive.
C31_ErrorsOfCurrentOutput ==
  AfterValidatePass =>
    /\ state.validation_errors = CurrentErrors
    /\ (Returned /\ response.kind = "result" /\ steps < recursion_limit)
         => response.validation_errors = CurrentErrors

\* the stages that failed, in the order of their execution
FailedStages == { i \in DOMAIN trace : trace[i].failed }

\* the error message the stage executed at i set when it failed
FailureReason(i) ==
  CASE trace[i].node = "generator" ->
         generator_node(state, env, trace[i].output).error_message
    [] trace[i].node = "formatter" ->
         formatter_node(state, env, trace[i].output).error_message
    [] OTHER -> "No formatted output to validate"

\* the workflow ran to its end and run built the result from its final state
WorkflowReturned ==
  /\ IsRun
  /\ Returned
  /\ trace # <<>>
  /\ trace[Len(trace)].node \in {"done", "fail"}

\* C34: when a stage of a run failed, the error of the result is the
\* failure reason of the first stage that failed: no later stage replaces
\* it.
C34_FirstFailureReported ==
  (WorkflowReturned /\ FailedStages # {} /\ ~response.success)
  => \E i \in FailedStages :
       /\ \A j \in FailedStages : i <= j
       /\ response.error = FailureReason(i)

\* C35: a run whose Generate stage failed does not return success = true,
\* and a result with success = true carries no error message.
C35_NoSuccessAfterGenerateFailure ==
  (IsRun /\ Returned) =>
    /\ GenerateFailed => ~response.success
    /\ response.success => response.error = None

\* the texts that are empty or hold whitespace only
BlankTexts == { "", " " }

\* C36: a run does not return success = true with an output that is empty
\* or consists of whitespace only, whatever the content type.
C36_NoBlankSuccess ==
  (IsRun /\ Returned /\ response.success) => response.output \notin BlankTexts

\* C37: a /reformat response with success = true has no validation errors
\* and its output is a formatter text the validator accepts, the second
\* formatter attempt included.
C37_ReformatSuccessIsValid ==
  (request.entry = "reformat" /\ Returned /\ response.success) =>
    /\ response.validation_errors = <<>>
    /\ Accepts(response.output)

\* ------------------------------------------------------------------------
\* ContentPipeline._run_direct: the nodes called in sequence
\* ------------------------------------------------------------------------

\* _run_direct: state, with the generator model in lower case
direct_state(r) ==
  [initial_state(r) EXCEPT !.generator_model = Lower(r.generator_model)]

\* f"Pipeline execution failed: {str(e)}" for the message a stage has set
direct_error(msg) ==
  CASE msg = "Input text exceeds 500000 character limit" ->
         "Pipeline execution failed: Input text exceeds 500000 character limit"
    [] msg = "Generation failed: ANTHROPIC_API_KEY not set" ->
         "Pipeline execution failed: Generation failed: ANTHROPIC_API_KEY not set"
    [] msg = "Generation failed: GOOGLE_API_KEY not set" ->
         "Pipeline execution failed: Generation failed: GOOGLE_API_KEY not set"
    [] msg = "Generation failed: Unknown model" ->
         "Pipeline execution failed: Generation failed: Unknown model"
    [] msg = "Generation failed: RetryError" ->
         "Pipeline execution failed: Generation failed: RetryError"
    [] msg = "Formatting failed: GOOGLE_API_KEY not set" ->
         "Pipeline execution failed: Formatting failed: GOOGLE_API_KEY not set"
    [] OTHER -> "Pipeline execution failed: Formatting failed: RetryError"

\* `if state.get("error_message"): raise Exception(...)`, caught by the
\* except branch of _run_direct
direct_raise(s, nodes) ==
  [response |-> exception_response(direct_error(s.error_message)),
   nodes |-> nodes]

\* 6. the final node, and the response
direct_finish(s, nodes) ==
  [response |-> prepare_response(IF s.success THEN done_node(s)
                                 ELSE fail_node(s)),
   nodes |-> Append(nodes, IF s.success THEN "done" ELSE "fail")]

\* 5. one retry at most, then the final node
direct_retry(s, e, out, nodes) ==
  IF ~s.success /\ s.formatter_retries < e.max_formatter_retries
  THEN direct_finish(validator_node(formatter_retry_node(s, e, out)),
                     nodes \o <<"formatter", "validator">>)
  ELSE direct_finish(s, nodes)

\* 3. and 4. formatter and validator
direct_format(s, e, outs, nodes) ==
  IF Truthy(formatter_node(s, e, outs[1]).error_message)
  THEN direct_raise(formatter_node(s, e, outs[1]), Append(nodes, "formatter"))
  ELSE direct_retry(validator_node(formatter_node(s, e, outs[1])), e, outs[2],
                    nodes \o <<"formatter", "validator">>)

\* 2. generator
direct_generate(s, e, gen_out, outs) ==
  IF Truthy(generator_node(s, e, gen_out).error_message)
  THEN direct_raise(generator_node(s, e, gen_out),
                    <<"load_prompts", "generator">>)
  ELSE direct_format(generator_node(s, e, gen_out), e, outs,
                     <<"load_prompts", "generator">>)

\* ContentPipeline._run_direct on request r, the generator's model call
\* returning gen_out and the formatter's calls outs[1], outs[2]: the
\* response and the nodes executed
run_direct(r, e, files, gen_out, outs) ==
  direct_generate(load_prompts_node(direct_state(r), files), e, gen_out, outs)

\* what the model calls of the run returned, in the order of the calls
GeneratorReturned ==
  IF Visits("generator") = {} THEN CallFailed
  ELSE trace[CHOOSE i \in Visits("generator") : TRUE].output

FormatterReturned ==
  [n \in 1..2 |-> IF n <= Cardinality(FormatterVisits)
                  THEN trace[NthFormatter(n)].output ELSE CallFailed]

\* the fallback on the request of the run and the same model responses
Fallback ==
  run_direct(request, env, prompt_files, GeneratorReturned, FormatterReturned)

\* C38: on the same request, configuration and model responses _run_direct
\* executes the same nodes in the same order and returns the same result as
\* the compiled workflow.
C38_FallbackEquivalent ==
  (IsRun /\ Returned) =>
    /\ response = Fallback.response
    /\ [i \in DOMAIN trace |-> trace[i].node] = Fallback.nodes

\* ------------------------------------------------------------------------
\* Validation of documents
\* ------------------------------------------------------------------------

MaxQuestions == 2

\* validate_content on the lines of a content: the content type is
\* upper-cased and dispatched on
validate_content_lines(raw, content_type) ==
  IF Upper(content_type) = S_MCQ THEN MCQValidateLines(raw)
  ELSE IF Upper(content_type) = S_NMCQ THEN NMCQValidateLines(raw)
  ELSE IF Upper(content_type) = S_SUMMARY THEN SummaryValidateBlank(raw)
  ELSE [is_valid |-> FALSE,
        errors |-> <<VErrorNoLine(Msg(0, "Invalid content type"), None)>>]

\* A question block as written: whether it has its title, how many vignette
\* lines, the letters of its option lines, the letter of its answer line ("" for
\* no answer line), whether it has its explanation (header and content), what
\* follows its analysis header ("none": no analysis section), whether it has
\* its Key Insights line, and whether blank lines separate its sections.
\* `defect` names the one part that was left out or spoilt, "" for none.
Block(vignette, options, answer, analysis, spaced) ==
  [title |-> TRUE, vignette |-> vignette, options |-> options,
   answer |-> answer, explanation |-> TRUE, analysis |-> analysis,
   key_insights |-> TRUE, spaced |-> spaced, defect |-> ""]

OptionRuns == { <<"A", "B", "C", "D">>, <<"A", "B", "C", "D", "E">> }

WellFormedBlocks ==
  UNION { { Block(v, o, a, an, sp) :
              v \in {1, 2}, a \in {o[1], o[2], o[Len(o)]},
              an \in {"options", "text"}, sp \in BOOLEAN } :
          o \in OptionRuns }

BaseBlocks ==
  { Block(1, <<"A", "B", "C", "D">>, "B", an, sp) :
      an \in {"options", "text"}, sp \in BOOLEAN }

Defects ==
  { "title", "vignette", "options_none", "options_three", "options_gap",
    "options_repeat", "options_order", "options_six",
    "answer_none", "answer_wrong", "answer_invalid", "explanation",
    "analysis", "key_insights" }

Spoil(b, d) ==
  CASE d = "title" -> [b EXCEPT !.title = FALSE, !.defect = d]
    [] d = "vignette" -> [b EXCEPT !.vignette = 0, !.defect = d]
    [] d = "options_none" -> [b EXCEPT !.options = <<>>, !.defect = d]
    [] d = "options_three" ->
         [b EXCEPT !.options = <<"A", "B", "C">>, !.defect = d]
    [] d = "options_gap" ->
         [b EXCEPT !.options = <<"A", "B", "D", "E">>, !.defect = d]
    [] d = "options_repeat" ->
         [b EXCEPT !.options = <<"A", "B", "C", "C">>, !.defect = d]
    [] d = "options_order" ->
         [b EXCEPT !.options = <<"B", "A", "C", "D">>, !.defect = d]
    [] d = "options_six" ->
         [b EXCEPT !.options = <<"A", "B", "C", "D", "E", "E">>, !.defect = d]
    [] d = "answer_none" -> [b EXCEPT !.answer = "", !.defect = d]
    [] d = "answer_wrong" -> [b EXCEPT !.answer = "E", !.defect = d]
    [] d = "answer_invalid" -> [b EXCEPT !.answer = "F", !.defect = d]
    [] d = "explanation" -> [b EXCEPT !.explanation = FALSE, !.defect = d]
    [] d = "analysis" -> [b EXCEPT !.analysis = "none", !.defect = d]
    [] d = "key_insights" -> [b EXCEPT !.key_insights = FALSE, !.defect = d]

DefectiveBlocks == { Spoil(b, d) : b \in BaseBlocks, d \in Defects }

\* the letters correct_answer_pattern accepts: a line 'Correct Answer: F'
\* does not match it and is a line of text to the validator
AnswerLetters == {"A", "B", "C", "D", "E"}

\* the lines of one block
Render(b) ==
  LET gap == IF b.spaced THEN <<Blank>> ELSE <<>> IN
  (IF b.title THEN <<Line("title")>> ELSE <<>>)
  \o [j \in 1..b.vignette |-> Line("text")]
  \o gap
  \o [j \in DOMAIN b.options |-> Opt(b.options[j])]
  \o gap
  \o (IF b.answer = "" THEN <<>>
      ELSE IF b.answer \in AnswerLetters THEN <<Ans(b.answer)>>
      ELSE <<[Line("text") EXCEPT !.letter = b.answer]>>)
  \o gap
  \o (IF b.explanation THEN <<Line("explanation"), Line("text")>> ELSE <<>>)
  \o gap
  \o (CASE b.analysis = "options" -> <<Line("analysis"), Opt("A"), Opt("C")>>
        [] b.analysis = "text" -> <<Line("analysis"), Line("text")>>
        [] OTHER -> <<>>)
  \o gap
  \o (IF b.key_insights THEN <<Line("key_insights")>> ELSE <<>>)

RECURSIVE RenderAll(_)
\* the lines of a document of several blocks, a blank line before each
\* further spaced block
RenderAll(bs) ==
  IF bs = <<>> THEN <<>>
  ELSE IF Len(bs) = 1 THEN Render(bs[1])
  ELSE Render(bs[1]) \o (IF bs[2].spaced THEN <<Blank>> ELSE <<>>)
       \o RenderAll(Tail(bs))

SeqsUpTo(S, n) == UNION { [1..k -> S] : k \in 1..n }

WellFormedDocuments == SeqsUpTo(WellFormedBlocks, MaxQuestions)

SpoiltDocuments == SeqsUpTo(BaseBlocks \cup DefectiveBlocks, MaxQuestions)

\* "", " " and "\n"
BlankContents == { <<>>, <<Blank>>, <<Blank, Blank>> }

IsBlankContent(raw) == \A j \in DOMAIN raw : IsBlank(raw[j])

\* no call of run or /reformat is in progress
RunIdle ==
  /\ request = CHOOSE r \in RunRequests : TRUE
  /\ state = initial_state(request)
  /\ pc = "off"
  /\ steps = 0
  /\ response = NoResponse
  /\ trace = <<>>

PipelineIdle ==
  /\ RunIdle
  /\ env = CHOOSE e \in Environments : TRUE
  /\ prompt_files = CHOOSE f \in PromptFileSets : TRUE

ValidatorInit ==
  /\ \/ /\ blocks \in WellFormedDocuments \cup SpoiltDocuments
        /\ content = RenderAll(blocks)
     \/ /\ blocks = <<>>
        /\ content \in BlankContents
  /\ validation = NoValidation
  /\ PipelineIdle
  /\ CallIdle
  /\ ConcurrentIdle
  /\ StreamIdle
  /\ AccessIdle
  /\ GenerationIdle

\* validate_content(content, content_type); NMCQ and SUMMARY are asked for
\* on blank contents only
ValidateContent ==
  /\ ~validation.done
  /\ \E content_type \in ContentTypeInputs :
       /\ Upper(content_type) = S_MCQ \/ IsBlankContent(content)
       /\ validation' =
            [content_type |-> content_type,
             result |-> validate_content_lines(content, content_type),
             done |-> TRUE]
  /\ UNCHANGED <<content, blocks>>
  /\ UNCHANGED <<pipeline_vars, call_vars, concurrent_vars, stream_vars, access_vars, generation_vars>>

SpecValidator == ValidatorInit /\ [][ValidateContent]_vars

\* ------------------------------------------------------------------------
\* Claims on the validators
\* ------------------------------------------------------------------------

ValidatedMCQ == validation.done /\ Upper(validation.content_type) = S_MCQ

Spoilt == { j \in DOMAIN blocks : blocks[j].defect # "" }

\* the section an error must carry to name the part a defect concerns
NamesPart(d) ==
  CASE d = "title" -> {"Title", "Format"}
    [] d = "vignette" -> {"Vignette"}
    [] d \in {"options_none", "options_three", "options_gap",
              "options_repeat", "options_order", "options_six"} -> {"Options"}
    [] d \in {"answer_none", "answer_wrong", "answer_invalid"} -> {"Answer"}
    [] d = "explanation" -> {"Explanation"}
    [] d = "analysis" -> {"Analysis"}
    [] d = "key_insights" -> {"Key Insights"}
    [] OTHER -> {}

\* C15: a document of one or more well-formed question blocks (title,
\* vignette, 4 or 5 options lettered from A, an answer among them,
\* explanation with content, analysis, Key Insights) validates as
\* (true, []).
C15_WellFormedAccepted ==
  (ValidatedMCQ /\ blocks # <<>>
     /\ \A j \in DOMAIN blocks : blocks[j] \in WellFormedBlocks)
  => validation.result = [is_valid |-> TRUE, errors |-> <<>>]

C15_Witness ==
  /\ ValidatedMCQ
  /\ Len(blocks) = MaxQuestions
  /\ \A j \in DOMAIN blocks : blocks[j] \in WellFormedBlocks
  /\ Len(blocks[1].options) = 5
  /\ blocks[1].answer = "E"
  /\ Len(blocks[Len(blocks)].options) = 4
  /\ validation.result.is_valid

\* C16: a document in which one question lacks one of its parts (title,
\* vignette, 4-5 consecutive options, an answer matching an option,
\* explanation, analysis, key insights) validates as false with an error
\* whose section names that part.
C16_MissingPartReported ==
  (ValidatedMCQ /\ Cardinality(Spoilt) = 1)
  => /\ ~validation.result.is_valid
     /\ \E j \in Spoilt :
          \E k \in DOMAIN validation.result.errors :
            validation.result.errors[k].section \in NamesPart(blocks[j].defect)

\* C17: after a defect was reported in the first question, every later
\* question that has its title is still evaluated: its own defect is reported
\* under its own number.
C17_LaterQuestionsEvaluated ==
  (ValidatedMCQ /\ Len(blocks) >= 2 /\ 1 \in Spoilt
     /\ \A j \in DOMAIN blocks : j >= 2 => blocks[j].title)
  => \A j \in Spoilt :
       j >= 2 =>
         \E k \in DOMAIN validation.result.errors :
           /\ validation.result.errors[k].message.number = j
           /\ validation.result.errors[k].section \in NamesPart(blocks[j].defect)

\* C18: for MCQ, NMCQ and SUMMARY, an empty or whitespace-only text validates
\* as false with exactly one error, whose line number is null.
C18_EmptyContentOneError ==
  (validation.done /\ IsBlankContent(content)
     /\ Upper(validation.content_type) \in {S_MCQ, S_NMCQ, S_SUMMARY})
  => /\ ~validation.result.is_valid
     /\ Len(validation.result.errors) = 1
     /\ validation.result.errors[1].line = <<>>

\* C20: when one question, otherwise well-formed with options A to D, names
\* in its answer line a letter that is not among its options, the document
\* validates as false with exactly one error, of section 'Answer', saying the
\* answer is not in the options.
C20_AnswerNotInOptions ==
  (ValidatedMCQ /\ Cardinality(Spoilt) = 1
     /\ \A j \in Spoilt : blocks[j].defect = "answer_wrong")
  => /\ ~validation.result.is_valid
     /\ Len(validation.result.errors) = 1
     /\ validation.result.errors[1].section = "Answer"
     /\ validation.result.errors[1].message.text = "Correct answer not in options"
     /\ validation.result.errors[1].message.number \in Spoilt

C20_Witness ==
  /\ ValidatedMCQ
  /\ Len(blocks) = MaxQuestions
  /\ Spoilt = {Len(blocks)}
  /\ blocks[Len(blocks)].defect = "answer_wrong"
  /\ blocks[Len(blocks)].options = <<"A", "B", "C", "D">>
  /\ Len(validation.result.errors) = 1

\* the questions whose answer line names a letter that is not among the
\* question's own option lines
AnswerOutsideOptions ==
  { j \in DOMAIN blocks :
      /\ blocks[j].answer # ""
      /\ ~AnswerInOptions(blocks[j].answer, blocks[j].options) }

HasError(section) ==
  \E k \in DOMAIN validation.result.errors :
    validation.result.errors[k].section = section

\* C21: when a question with a title carries a valid answer line whose
\* letter is not one of the option letters of that question (the question
\* may have no option line at all), an error of section 'Answer' is
\* reported.
C21_AnswerAmongOptions ==
  (ValidatedMCQ /\ AnswerOutsideOptions # {}
     /\ \A j \in DOMAIN blocks : blocks[j].title)
  => HasError("Answer")

\* C22: in a document of questions with titles, no error of section
\* 'Options' is reported exactly when every question has 4 or 5 option
\* lines lettered A, B, C, D (and E) in that order.
C22_OptionsAcceptedIff ==
  (ValidatedMCQ /\ blocks # <<>> /\ \A j \in DOMAIN blocks : blocks[j].title)
  => ((\A j \in DOMAIN blocks : blocks[j].options \in OptionRuns)
        <=> ~HasError("Options"))

\* the errors that report a section as missing
MissingTexts ==
  { "Missing vignette/stem", "Missing or invalid 'Correct Answer:' line",
    "Missing explanation section",
    "Missing 'Analysis of Other Options' section",
    "Missing 'Key Insights' section" }

\* the section is absent from the block as written (for the answer: absent
\* or with a letter correct_answer_pattern refuses)
Absent(b, section) ==
  CASE section = "Vignette" -> b.vignette = 0
    [] section = "Answer" -> b.answer \notin AnswerLetters
    [] section = "Explanation" -> ~b.explanation
    [] section = "Analysis" -> b.analysis = "none"
    [] section = "Key Insights" -> ~b.key_insights
    [] OTHER -> FALSE

\* C39: in a document of questions with titles, a section is reported as
\* missing from a question only when that question lacks it: a malformed
\* section does not make the sections after it count as missing.
C39_MissingOnlyIfAbsent ==
  (ValidatedMCQ /\ \A j \in DOMAIN blocks : blocks[j].title)
  => \A k \in DOMAIN validation.result.errors :
       validation.result.errors[k].message.text \in MissingTexts
       => /\ validation.result.errors[k].message.number \in DOMAIN blocks
          /\ Absent(blocks[validation.result.errors[k].message.number],
                    validation.result.errors[k].section)

\* ------------------------------------------------------------------------
\* Validation of NMCQ documents
\* ------------------------------------------------------------------------

\* question types as written in a document
T_TrueFalse == <<"T","r","u","e","/","F","a","l","s","e">>

T_TRUEFALSE == <<"T","R","U","E","/","F","A","L","S","E">>

T_YesNo == <<"Y","e","s","/","N","o">>

T_DropDownQuestion == <<"D","r","o","p"," ","D","o","w","n"," ","Q","u","e","s","t","i","o","n">>

T_DropDashDown == <<"D","r","o","p","-","D","o","w","n">>

T_DropDown == <<"D","r","o","p"," ","D","o","w","n">>

TrueFalseTypes == { T_TrueFalse, T_TRUEFALSE }

DropDownTypes == { T_DropDownQuestion, T_DropDashDown, T_DropDown }

\* A sub-question as written: its type, the form of its options ("none",
\* "one", "two" or "three" lines of text, or one line 'Options: a' /
\* 'Options: a, b'), the value of its Answer line ("" for no Answer line),
\* whether it has its Explanation line, and whether its number is the
\* running count (a misnumbered one carries the count plus one); an
\* overlong one has its number written with leading zeros, one digit more
\* than int_max_str_digits in all.
Sub(q_type, options, answer, explanation) ==
  [q_type |-> q_type, options |-> options, answer |-> answer,
   explanation |-> explanation, misnumbered |-> FALSE, overlong |-> FALSE]

\* the answers that conform to a type as written
Conforming(q_type) ==
  IF q_type \in TrueFalseTypes THEN {"True", "False"}
  ELSE IF q_type = T_YesNo THEN {"Yes", "No"}
  ELSE {"Option B"}

WellFormedSubs ==
  UNION { { Sub(t, "none", a, TRUE) : a \in Conforming(t) } :
          t \in TrueFalseTypes \cup {T_YesNo} }
  \cup { Sub(t, o, "Option B", TRUE) :
           t \in DropDownTypes, o \in {"two", "three", "inline_two"} }

AnswerValues == { "True", "False", "Yes", "No", "Maybe", "true", "Option B" }

\* well-formed but for the value of the answer
AnsweredSubs ==
  { Sub(t, "none", a, TRUE) :
      t \in TrueFalseTypes \cup {T_YesNo}, a \in AnswerValues }
  \cup { Sub(t, "two", a, TRUE) : t \in DropDownTypes, a \in AnswerValues }

BaseSubs ==
  { Sub(T_TrueFalse, "none", "True", TRUE),
    Sub(T_YesNo, "none", "No", TRUE),
    Sub(T_DropDownQuestion, "two", "Option B", TRUE),
    Sub(T_DropDown, "two", "Option B", TRUE) }

DefectiveSubs ==
  { [q EXCEPT !.answer = ""] : q \in BaseSubs }
  \cup { [q EXCEPT !.explanation = FALSE] : q \in BaseSubs }
  \cup { [q EXCEPT !.misnumbered = TRUE] : q \in BaseSubs }
  \cup { [q EXCEPT !.overlong = TRUE] : q \in BaseSubs }
  \cup { Sub(T_DropDownQuestion, o, "Option B", TRUE) :
           o \in {"none", "one", "inline_one"} }

\* A vignette as written: whether it has its title line, how many body
\* lines, whether it has the 'Questions and Answers:' header, whether blank
\* lines separate its parts, and its sub-questions.
Vignette(title, body, header, spaced, subs) ==
  [title |-> title, body |-> body, header |-> header, spaced |-> spaced,
   subs |-> subs]

\* one sub-question, or a listed one before or after one of `others`
OneAmong(listed, others) ==
  [1..1 -> listed]
  \cup { <<a, b>> : a \in listed, b \in others }
  \cup { <<b, a>> : a \in listed, b \in others }

WellFormedVignettes ==
  { Vignette(TRUE, b, h, sp, subs) :
      b \in {1, 2}, h \in BOOLEAN, sp \in BOOLEAN,
      subs \in SeqsUpTo(WellFormedSubs, MaxQuestions) }

BaseVignettes ==
  { Vignette(TRUE, 1, h, TRUE,
             <<Sub(T_TrueFalse, "none", "True", TRUE),
               Sub(T_DropDownQuestion, "two", "Option B", TRUE)>>) :
      h \in BOOLEAN }

AnsweredVignettes ==
  { Vignette(TRUE, 1, h, TRUE, subs) :
      h \in BOOLEAN, subs \in OneAmong(AnsweredSubs, BaseSubs) }

\* vignettes without any sub-question
EmptyVignettes ==
  { Vignette(TRUE, b, h, sp, <<>>) :
      b \in {0, 1}, h \in BOOLEAN, sp \in BOOLEAN }

DefectiveVignettes ==
  { Vignette(TRUE, 1, h, TRUE, subs) :
      h \in BOOLEAN, subs \in OneAmong(DefectiveSubs, BaseSubs) }
  \cup { Vignette(t, b, h, TRUE, <<q>>) :
           t \in BOOLEAN, b \in {0, 1}, h \in BOOLEAN, q \in BaseSubs }

\* one vignette, or a listed one before or after a base vignette
Documents(listed) ==
  [1..1 -> listed]
  \cup { <<a, b>> : a \in listed, b \in BaseVignettes }
  \cup { <<b, a>> : a \in listed, b \in BaseVignettes }

NMCQDocuments ==
  Documents(WellFormedVignettes)
  \cup [1..1 -> AnsweredVignettes]
  \cup Documents(EmptyVignettes) \cup [1..2 -> EmptyVignettes]
  \cup Documents(DefectiveVignettes)

\* the lines of sub-question q, numbered n
RenderSub(q, n) ==
  <<[NQuestion(IF q.misnumbered THEN n + 1 ELSE n, q.q_type)
       EXCEPT !.digits = IF q.overlong THEN int_max_str_digits + 1 ELSE 1]>>
  \o (CASE q.options = "one" -> <<NLine("text")>>
        [] q.options = "two" -> <<NLine("text"), NLine("text")>>
        [] q.options = "three" -> <<NLine("text"), NLine("text"), NLine("text")>>
        [] q.options = "inline_one" -> <<NOptions(1)>>
        [] q.options = "inline_two" -> <<NOptions(2)>>
        [] OTHER -> <<>>)
  \o (IF q.answer = "" THEN <<>> ELSE <<NAnswer(q.answer)>>)
  \o (IF q.explanation THEN <<NLine("explanation")>> ELSE <<>>)

RECURSIVE RenderSubs(_, _, _)
\* the lines of the sub-questions from the n-th on, a blank line before
\* each in a spaced vignette
RenderSubs(subs, n, spaced) ==
  IF n > Len(subs) THEN <<>>
  ELSE (IF spaced THEN <<NBlank>> ELSE <<>>)
       \o RenderSub(subs[n], n) \o RenderSubs(subs, n + 1, spaced)

\* the lines of one vignette
RenderVignette(v) ==
  (IF v.title THEN <<NLine("title")>> ELSE <<>>)
  \o [j \in 1..v.body |-> NLine("text")]
  \o (IF v.header
      THEN (IF v.spaced THEN <<NBlank>> ELSE <<>>) \o <<NLine("qa_header")>>
      ELSE <<>>)
  \o RenderSubs(v.subs, 1, v.spaced)

RECURSIVE RenderVignettes(_)
\* the lines of a document, a blank line before each further spaced vignette
RenderVignettes(vs) ==
  IF vs = <<>> THEN <<>>
  ELSE IF Len(vs) = 1 THEN RenderVignette(vs[1])
  ELSE RenderVignette(vs[1]) \o (IF vs[2].spaced THEN <<NBlank>> ELSE <<>>)
       \o RenderVignettes(Tail(vs))

NMCQInit ==
  /\ blocks \in NMCQDocuments
  /\ content = RenderVignettes(blocks)
  /\ validation = NoValidation
  /\ PipelineIdle
  /\ CallIdle
  /\ ConcurrentIdle
  /\ StreamIdle
  /\ AccessIdle
  /\ GenerationIdle

\* validate_content(content, content_type) with a content type that names
\* NMCQ, on a build with or without the limit of int()
ValidateNMCQ ==
  /\ ~validation.done
  /\ \E content_type \in ContentTypeInputs, int_limit \in IntLimits :
       /\ Upper(content_type) = S_NMCQ
       /\ validation' =
            [content_type |-> content_type,
             result |-> IF NMCQValidateLimited(content, int_limit)
                           = Raised("ValueError")
                        THEN Raised("ValueError")
                        ELSE validate_content_lines(content, content_type),
             done |-> TRUE]
  /\ UNCHANGED <<content, blocks>>
  /\ UNCHANGED <<pipeline_vars, call_vars, concurrent_vars, stream_vars, access_vars, generation_vars>>

SpecNMCQ == NMCQInit /\ [][ValidateNMCQ]_vars

\* ------------------------------------------------------------------------
\* Claims on the NMCQ validator
\* ------------------------------------------------------------------------

ValidatedNMCQ == validation.done /\ Upper(validation.content_type) = S_NMCQ

AllSubs == { <<j, n>> \in (DOMAIN blocks) \X (1..MaxQuestions) :
               n <= Len(blocks[j].subs) }

\* the Answer value of a sub-question does not conform to its type
NonConforming(q) ==
  /\ q.answer # ""
  /\ \/ q.q_type \in TrueFalseTypes /\ q.answer \notin {"True", "False"}
     \/ q.q_type = T_YesNo /\ q.answer \notin {"Yes", "No"}

\* well-formed, the value of the answer apart
WellFormedButAnswer(v) ==
  /\ v.title
  /\ v.body >= 1
  /\ v.subs # <<>>
  /\ \A n \in DOMAIN v.subs :
       /\ v.subs[n].answer \in AnswerValues
       /\ \E a \in AnswerValues :
            [v.subs[n] EXCEPT !.answer = a] \in WellFormedSubs

\* C23: a document of one or more vignettes, each with its title, a body,
\* with or without the 'Questions and Answers:' header, and sub-questions
\* numbered from 1 of type True/False, Yes/No or Drop Down (2 or more
\* options), each followed by a conforming Answer line and an Explanation
\* line, validates as (true, []).
C23_WellFormedNMCQAccepted ==
  (ValidatedNMCQ /\ \A j \in DOMAIN blocks : blocks[j] \in WellFormedVignettes)
  => validation.result = [is_valid |-> TRUE, errors |-> <<>>]

\* C24: in a document that is well-formed but for the values of its answers,
\* an error of section 'Answer' is reported exactly when some True/False
\* answer is not 'True' or 'False' or some Yes/No answer is not 'Yes' or
\* 'No'; when one answer fails so, that error is the only one.
C24_AnswerValueChecked ==
  (ValidatedNMCQ /\ \A j \in DOMAIN blocks : WellFormedButAnswer(blocks[j]))
  => /\ HasError("Answer")
          <=> \E p \in AllSubs : NonConforming(blocks[p[1]].subs[p[2]])
     /\ Cardinality({ p \in AllSubs : NonConforming(blocks[p[1]].subs[p[2]]) }) = 1
          => /\ Len(validation.result.errors) = 1
             /\ validation.result.errors[1].section = "Answer"

\* the vignettes none of whose sub-questions question_pattern recognises
WithoutQuestions ==
  { j \in DOMAIN blocks :
      \A n \in DOMAIN blocks[j].subs :
        ~QuestionTypeMatches(blocks[j].subs[n].q_type) }

\* C25: every vignette without a recognised sub-question is reported with
\* 'No questions found' under its own number, alone or next to other
\* vignettes.
C25_NoQuestionsReported ==
  (ValidatedNMCQ /\ \A j \in DOMAIN blocks : blocks[j].title)
  => \A j \in WithoutQuestions :
       \E k \in DOMAIN validation.result.errors :
         /\ validation.result.errors[k].message.text = "No questions found"
         /\ validation.result.errors[k].message.number = j

\* a validator was called and has left
Called == validation.done

\* C33: each validator returns a verdict on every text: validate is never
\* left by an exception.
C33_ValidateReturns ==
  Called => DOMAIN validation.result = {"is_valid", "errors"}

\* ------------------------------------------------------------------------
\* Validation of SUMMARY documents
\* ------------------------------------------------------------------------

\* A summary block as written: whether its first line is numbered ('1. ...'),
\* whether it has its 'High Yield Points:' section, the header of its Key
\* Insights section ("none", "plural": 'Key Insights:', "singular":
\* 'Key Insight:', "bare": 'Key Insights'), whether the payload follows the
\* header on the same line, and the number of characters of the payload.
SBlock(numbered, high_yield, key_insights, inline, payload) ==
  [numbered |-> numbered, high_yield |-> high_yield,
   key_insights |-> key_insights, inline |-> inline, payload |-> payload]

\* payload lengths around the bound of 20 characters
Payloads == { 0, 10, 16, 17, 19, 20, 21, 30 }

SBlocks ==
  { SBlock(n, h, "none", TRUE, 0) : n \in BOOLEAN, h \in BOOLEAN }
  \cup { SBlock(n, h, k, i, p) :
           n \in BOOLEAN, h \in BOOLEAN,
           k \in {"plural", "singular", "bare"}, i \in BOOLEAN, p \in Payloads }

SBaseBlocks ==
  { SBlock(n, TRUE, "plural", TRUE, p) : n \in BOOLEAN, p \in {10, 30} }

SummaryDocuments ==
  [1..1 -> SBlocks]
  \cup { <<a, b>> : a \in SBlocks, b \in SBaseBlocks }
  \cup { <<b, a>> : a \in SBlocks, b \in SBaseBlocks }

\* "", " " and "\n "
BlankSummaries == { <<>>, << <<T_sp>> >>, << <<>>, <<T_sp>> >> }

\* the Key Insights header as written
KeyInsightsHeader(b) ==
  <<T_ki>> \o (CASE b.key_insights = "plural" -> <<T_s, T_colon>>
                 [] b.key_insights = "singular" -> <<T_colon>>
                 [] OTHER -> <<T_s>>)

\* the lines of one block
RenderSBlock(b) ==
  << (IF b.numbered THEN <<T_num, T_sp>> ELSE <<>>) \o <<Text(5)>> >>
  \o (IF b.high_yield
      THEN << <<T_hy, T_sp, Text(6), T_colon>>, <<T_sp, T_sp, Text(12)>> >>
      ELSE << <<Text(12)>> >>)
  \o (IF b.key_insights = "none" THEN <<>>
      ELSE IF b.payload = 0 THEN << KeyInsightsHeader(b) >>
      ELSE IF b.inline
      THEN << KeyInsightsHeader(b) \o <<T_sp, Text(b.payload)>> >>
      ELSE << KeyInsightsHeader(b), <<T_sp, T_sp, Text(b.payload)>> >>)

RECURSIVE RenderSBlocks(_)
\* the lines of a document
RenderSBlocks(bs) ==
  IF bs = <<>> THEN <<>> ELSE RenderSBlock(Head(bs)) \o RenderSBlocks(Tail(bs))

SummaryInit ==
  /\ \/ /\ blocks \in SummaryDocuments
        /\ content = RenderSBlocks(blocks)
     \/ /\ blocks = <<>>
        /\ content \in BlankSummaries
  /\ validation = NoValidation
  /\ PipelineIdle
  /\ CallIdle
  /\ ConcurrentIdle
  /\ StreamIdle
  /\ AccessIdle
  /\ GenerationIdle

\* validate_content(content, content_type) with a content type that names
\* SUMMARY
ValidateSummary ==
  /\ ~validation.done
  /\ \E content_type \in ContentTypeInputs :
       /\ Upper(content_type) = S_SUMMARY
       /\ validation' =
            [content_type |-> content_type,
             result |-> SummaryValidateLines(content),
             done |-> TRUE]
  /\ UNCHANGED <<content, blocks>>
  /\ UNCHANGED <<pipeline_vars, call_vars, concurrent_vars, stream_vars, access_vars, generation_vars>>

SpecSummary == SummaryInit /\ [][ValidateSummary]_vars

\* ------------------------------------------------------------------------
\* Claims on the SUMMARY validator
\* ------------------------------------------------------------------------

ValidatedSummary ==
  validation.done /\ Upper(validation.content_type) = S_SUMMARY

\* a phrase occurs somewhere in the document as written
PhraseWritten(phrase) ==
  \E j \in DOMAIN blocks :
    IF phrase = "hy" THEN blocks[j].high_yield
    ELSE blocks[j].key_insights # "none"

OnlyStructureErrors ==
  \A k \in DOMAIN validation.result.errors :
    validation.result.errors[k].section = "Structure"

HasErrorText(text) ==
  \E k \in DOMAIN validation.result.errors :
    validation.result.errors[k].message.text = text

\* C26: a SUMMARY text that lacks 'high yield' or 'key insight' validates as
\* false with a Structure error for each missing phrase and no error of any
\* block; a text with both phrases and no numbered item validates as
\* (true, []).
C26_MissingPhrasesStructure ==
  (ValidatedSummary /\ blocks # <<>>)
  => /\ (~PhraseWritten("hy") \/ ~PhraseWritten("ki"))
          => /\ ~validation.result.is_valid
             /\ OnlyStructureErrors
             /\ ~PhraseWritten("hy")
                  => HasErrorText("No 'High Yield Points' sections found")
             /\ ~PhraseWritten("ki")
                  => HasErrorText("No 'Key Insights' sections found")
     /\ (PhraseWritten("hy") /\ PhraseWritten("ki")
           /\ \A j \in DOMAIN blocks : ~blocks[j].numbered)
          => validation.result = [is_valid |-> TRUE, errors |-> <<>>]

C26_Witness ==
  /\ ValidatedSummary
  /\ Len(blocks) = 1
  /\ blocks[1].numbered
  /\ PhraseWritten("hy")
  /\ ~PhraseWritten("ki")
  /\ Len(validation.result.errors) = 1
  /\ OnlyStructureErrors

\* C27: in a SUMMARY text of numbered blocks, each with both phrases, a
\* block is flagged 'Key Insights appears empty or too short' exactly when
\* the payload after its Key Insights header has 20 characters or fewer.
C27_ShortKeyInsightsFlagged ==
  (ValidatedSummary /\ blocks # <<>>
     /\ \A j \in DOMAIN blocks :
          /\ blocks[j].numbered
          /\ blocks[j].high_yield
          /\ blocks[j].key_insights # "none")
  => \A j \in DOMAIN blocks :
       blocks[j].payload <= 20
         <=> \E k \in DOMAIN validation.result.errors :
               /\ validation.result.errors[k].message.text =
                    "Key Insights appears empty or too short"
               /\ validation.result.errors[k].message.number = j

\* C28: every error a validator returns carries no line number or the
\* number, counted from 1, of a line of the validated text.
C28_LineNumbersInText ==
  validation.done
  => \A k \in DOMAIN validation.result.errors :
       \/ validation.result.errors[k].line = <<>>
       \/ /\ validation.result.errors[k].line[1] >= 1
          /\ validation.result.errors[k].line[1] <= Len(content)

\* ------------------------------------------------------------------------
\* Claims on the outcome of a run
\* ------------------------------------------------------------------------

\* C11: a run that has returned went through exactly one of the terminal
\* states Done and Fail, and handed its caller a result record (stated for
\* the runs none of whose stages failed).
C11_OneTerminalState ==
  (IsRun /\ Returned /\ \A i \in DOMAIN trace : ~trace[i].failed)
  => /\ Cardinality(Visits("done")) + Cardinality(Visits("fail")) = 1
     /\ response.kind = "result"

\* ------------------------------------------------------------------------
\* One model invocation: call_claude / call_gemini under @retry
\* ------------------------------------------------------------------------

\* stop_after_attempt(3)
max_attempt_number == 3

\* variant: one more attempt before giving up
stop_after_attempt_four(attempt_number) ==
  attempt_number >= max_attempt_number + 1

\* stop=stop_after_attempt(3): give up once that many attempts were made
stop_after_attempt(attempt_number) == attempt_number >= max_attempt_number

\* retry=retry_if_exception_type(Exception): only a raised attempt is retried
retry_if_exception(outcome) == outcome = CallFailed

\* the stage reaches its model call (its credentials check passed)
StageCallsModel(stage, s, e) ==
  IF stage = "generator" THEN GeneratorCallsModel(s, e)
  ELSE FormatterCallsModel(s, e)

\* what one attempt of the stage's model call can produce
AttemptOutcomes(stage) ==
  IF stage = "generator" THEN GeneratorOutcomes ELSE FormatterOutcomes

\* the stage's node, given what its model invocation came to
stage_node(stage, s, e, out) ==
  IF stage = "generator" THEN generator_node(s, e, out)
  ELSE formatter_node(s, e, out)

\* the states a stage is entered in: after load_prompts for the generator,
\* with a draft for the formatter
StageEntries ==
  { [stage |-> "generator", s |-> load_prompts_node(initial_state(r), f)] :
      r \in { q \in RunRequests : Upper(q.content_type) = S_MCQ },
      f \in PromptFileSets }
  \cup
  { [stage |-> "formatter",
     s |-> [load_prompts_node(initial_state(r), f) EXCEPT !.draft_1 = d]] :
      r \in { q \in RunRequests : Upper(q.content_type) = S_MCQ
                                  /\ q.input_len <= max_input_chars },
      f \in PromptFileSets, d \in Drafts }

KeySettings ==
  { e \in Environments : e.max_formatter_retries = 0 }

CallInit ==
  /\ \E entry \in StageEntries, e \in KeySettings :
       call = [pc |-> "enter", stage |-> entry.stage, s |-> entry.s, e |-> e,
               attempts |-> <<>>, out |-> None, after |-> entry.s]
  /\ PipelineIdle
  /\ ValidatorIdle
  /\ ConcurrentIdle
  /\ StreamIdle
  /\ AccessIdle
  /\ GenerationIdle

\* the node up to its model call: size check, provider selection and
\* credentials check; a stage that fails here makes no attempt
EnterStage ==
  /\ call.pc = "enter"
  /\ call' =
       IF StageCallsModel(call.stage, call.s, call.e)
       THEN [call EXCEPT !.pc = "attempt"]
       ELSE [call EXCEPT !.pc = "stage_done",
                         !.after = stage_node(call.stage, call.s, call.e,
                                              CallFailed)]
  /\ UNCHANGED <<pipeline_vars, validator_vars, concurrent_vars, stream_vars, access_vars, generation_vars>>

\* one attempt of the decorated function: it returns a text, which ends the
\* invocation, or raises; a raised attempt is retried unless it was the last
Attempt ==
  /\ call.pc = "attempt"
  /\ \E outcome \in AttemptOutcomes(call.stage) :
       call' =
         [call EXCEPT
            !.attempts = Append(@, outcome),
            !.out = outcome,
            !.pc = IF ~retry_if_exception(outcome) THEN "returned"
                   ELSE IF stop_after_attempt(Len(call.attempts) + 1)
                   THEN "raised"
                   ELSE "sleep"]
  /\ UNCHANGED <<pipeline_vars, validator_vars, concurrent_vars, stream_vars, access_vars, generation_vars>>

\* wait=wait_exponential(...): sleep, then attempt again
Backoff ==
  /\ call.pc = "sleep"
  /\ call' = [call EXCEPT !.pc = "attempt"]
  /\ UNCHANGED <<pipeline_vars, validator_vars, concurrent_vars, stream_vars, access_vars, generation_vars>>

\* the node after its model call: it stores the text, or its except branch
\* records the RetryError as the stage's failure
LeaveStage ==
  /\ call.pc \in {"returned", "raised"}
  /\ call' = [call EXCEPT
                !.pc = "stage_done",
                !.after = stage_node(call.stage, call.s, call.e, call.out)]
  /\ UNCHANGED <<pipeline_vars, validator_vars, concurrent_vars, stream_vars, access_vars, generation_vars>>

CallNext ==
  \/ EnterStage
  \/ Attempt
  \/ Backoff
  \/ LeaveStage

SpecCall == CallInit /\ [][CallNext]_vars

\* the text the stage stored
StageText(stage, s) ==
  IF stage = "generator" THEN s.draft_1 ELSE s.formatted_output

\* the credentials of the provider the stage selects are absent
CredentialsAbsent ==
  IF call.stage = "formatter" THEN ~call.e.google_key
  ELSE \/ IsClaude(call.s.generator_model) /\ ~call.e.anthropic_key
       \/ /\ ~IsClaude(call.s.generator_model)
          /\ IsGemini(call.s.generator_model)
          /\ ~call.e.google_key

\* C12: one model invocation makes at most 3 attempts, each but the last a
\* failed one; the stage stores the text of the first successful attempt;
\* after 3 failed attempts the stage fails; and with the selected provider's
\* credentials absent the stage fails on the configuration error with no
\* attempt made.
C12_BoundedAttempts ==
  /\ Len(call.attempts) <= 3
  /\ \A i \in DOMAIN call.attempts :
       i < Len(call.attempts) => call.attempts[i] = CallFailed
  /\ (call.pc = "stage_done" /\ call.attempts # <<>>
        /\ call.attempts[Len(call.attempts)] # CallFailed)
     => /\ StageText(call.stage, call.after) = call.attempts[Len(call.attempts)]
        /\ call.after.error_message = call.s.error_message
  /\ (call.pc = "stage_done" /\ call.attempts # <<>>
        /\ call.attempts[Len(call.attempts)] = CallFailed)
     => /\ Len(call.attempts) = 3
        /\ ~call.after.success
        /\ call.after.error_message
             \in {"Generation failed: RetryError", "Formatting failed: RetryError"}
        /\ StageText(call.stage, call.after) = StageText(call.stage, call.s)
  /\ CredentialsAbsent
     => /\ call.attempts = <<>>
        /\ (call.pc = "stage_done" /\ call.s.input_len <= max_input_chars)
           => /\ ~call.after.success
              /\ call.after.error_message
                   \in {"Generation failed: ANTHROPIC_API_KEY not set",
                        "Generation failed: GOOGLE_API_KEY not set",
                        "Formatting failed: GOOGLE_API_KEY not set"}

C12_Witness ==
  /\ call.pc = "stage_done"
  /\ Len(call.attempts) = 3
  /\ call.attempts[1] = CallFailed
  /\ call.attempts[2] = CallFailed
  /\ call.attempts[3] = "DRAFT"
  /\ call.after.draft_1 = "DRAFT"

\* ------------------------------------------------------------------------
\* Two calls of run on the module-level pipeline, interleaved node by node
\* ------------------------------------------------------------------------

RunIds == {1, 2}

\* the model responses a run will receive: one for the generator call, one
\* for each formatter call
Scripts ==
  [gen_out : GeneratorOutcomes,
   fmt_outs : [{1, 2} -> {"Q_OK", "BAD", CallFailed}]]

ConcurrentRequests ==
  { r \in RunRequests :
      /\ Upper(r.content_type) \in {S_MCQ, S_SUMMARY}
      /\ IsClaude(r.generator_model)
      /\ r.input_len <= max_input_chars }

\* variant: one state dict kept by the pipeline object and reused by every run
new_state_shared(h) == 1

\* `initial_state: PipelineState = {...}`: the dict literal builds a new
\* object on every call of run
new_state(h) == Len(h) + 1

\* the object at address a is (re)initialised with the value v
Store(h, a, v) == IF a <= Len(h) THEN [h EXCEPT ![a] = v] ELSE Append(h, v)

ConcurrentInit ==
  /\ runs \in [RunIds ->
        { [request |-> r, script |-> sc, used |-> 0, ref |-> 0,
           pc |-> "start", steps |-> 0, response |-> NoResponse] :
            r \in ConcurrentRequests, sc \in Scripts }]
  /\ heap = <<>>
  /\ env \in { e \in Environments :
                 e.anthropic_key /\ e.google_key /\ e.max_formatter_retries = 1 }
  /\ prompt_files \in { f \in PromptFileSets : f.nmcq_formatter # "" }
  /\ RunIdle
  /\ ValidatorIdle
  /\ CallIdle
  /\ StreamIdle
  /\ AccessIdle
  /\ GenerationIdle

\* the model response the next formatter call of a run receives
NextFormatterOut(run, s) ==
  IF FormatterCallsModel(s, env) THEN run.script.fmt_outs[run.used + 1]
  ELSE CallFailed

\* a node of run r has executed: the run's state object now holds s2
Advance(r, s2, next, used) ==
  /\ heap' = [heap EXCEPT ![runs[r].ref] = s2]
  /\ runs' = [runs EXCEPT ![r].pc = next, ![r].steps = @ + 1, ![r].used = used]
  /\ UNCHANGED <<pipeline_vars, validator_vars, call_vars, stream_vars, access_vars, generation_vars>>

RunAt(r, node) == runs[r].pc = node /\ runs[r].steps < recursion_limit

\* run builds its initial_state and invokes the compiled workflow
CStart ==
  \E r \in RunIds :
    /\ runs[r].pc = "start"
    /\ heap' = Store(heap, new_state(heap), initial_state(runs[r].request))
    /\ runs' = [runs EXCEPT ![r].ref = new_state(heap),
                            ![r].pc = "load_prompts"]
    /\ UNCHANGED <<pipeline_vars, validator_vars, call_vars, stream_vars, access_vars, generation_vars>>

CLoadPrompts ==
  \E r \in RunIds :
    /\ RunAt(r, "load_prompts")
    /\ Advance(r, load_prompts_node(heap[runs[r].ref], prompt_files),
               "generator", runs[r].used)

CGenerator ==
  \E r \in RunIds :
    /\ RunAt(r, "generator")
    /\ Advance(r,
               generator_node(heap[runs[r].ref], env,
                              IF GeneratorCallsModel(heap[runs[r].ref], env)
                              THEN runs[r].script.gen_out ELSE CallFailed),
               "formatter", runs[r].used)

CFormatter ==
  \E r \in RunIds :
    /\ RunAt(r, "formatter")
    /\ Advance(r,
               formatter_node(heap[runs[r].ref], env,
                              NextFormatterOut(runs[r], heap[runs[r].ref])),
               "validator", runs[r].used + 1)

\* the node a validated state is routed to
Route(s) ==
  CASE should_retry_or_finish(s, env) = "done" -> "done"
    [] should_retry_or_finish(s, env) = "retry" -> "formatter_retry"
    [] OTHER -> "fail"

CValidator ==
  \E r \in RunIds :
    /\ RunAt(r, "validator")
    /\ Advance(r, validator_node(heap[runs[r].ref]),
               Route(validator_node(heap[runs[r].ref])), runs[r].used)

CFormatterRetry ==
  \E r \in RunIds :
    /\ RunAt(r, "formatter_retry")
    /\ Advance(r,
               formatter_retry_node(heap[runs[r].ref], env,
                                    NextFormatterOut(runs[r], heap[runs[r].ref])),
               "validator", runs[r].used + 1)

CDone ==
  \E r \in RunIds :
    /\ RunAt(r, "done")
    /\ Advance(r, done_node(heap[runs[r].ref]), "END", runs[r].used)

CFail ==
  \E r \in RunIds :
    /\ RunAt(r, "fail")
    /\ Advance(r, fail_node(heap[runs[r].ref]), "END", runs[r].used)

\* app.invoke returned the run's final state
CReturn ==
  \E r \in RunIds :
    /\ runs[r].pc = "END"
    /\ runs' = [runs EXCEPT ![r].pc = "returned",
                            ![r].response = prepare_response(heap[runs[r].ref])]
    /\ UNCHANGED heap
    /\ UNCHANGED <<pipeline_vars, validator_vars, call_vars, stream_vars, access_vars, generation_vars>>

ConcurrentNext ==
  \/ CStart
  \/ CLoadPrompts
  \/ CGenerator
  \/ CFormatter
  \/ CValidator
  \/ CFormatterRetry
  \/ CDone
  \/ CFail
  \/ CReturn

SpecConcurrent == ConcurrentInit /\ [][ConcurrentNext]_vars

\* One node of a run executed on its own: c is the run's state, the node
\* about to execute and the formatter calls made so far.
SoloStep(run, c) ==
  CASE c.pc = "load_prompts" ->
         [s |-> load_prompts_node(c.s, prompt_files), pc |-> "generator",
          used |-> c.used]
    [] c.pc = "generator" ->
         [s |-> generator_node(c.s, env,
                               IF GeneratorCallsModel(c.s, env)
                               THEN run.script.gen_out ELSE CallFailed),
          pc |-> "formatter", used |-> c.used]
    [] c.pc = "formatter" ->
         [s |-> formatter_node(c.s, env,
                               IF FormatterCallsModel(c.s, env)
                               THEN run.script.fmt_outs[c.used + 1]
                               ELSE CallFailed),
          pc |-> "validator", used |-> c.used + 1]
    [] c.pc = "validator" ->
         [s |-> validator_node(c.s), pc |-> Route(validator_node(c.s)),
          used |-> c.used]
    [] c.pc = "formatter_retry" ->
         [s |-> formatter_retry_node(c.s, env,
                                     IF FormatterCallsModel(c.s, env)
                                     THEN run.script.fmt_outs[c.used + 1]
                                     ELSE CallFailed),
          pc |-> "validator", used |-> c.used + 1]
    [] c.pc = "done" -> [s |-> done_node(c.s), pc |-> "END", used |-> c.used]
    [] c.pc = "fail" -> [s |-> fail_node(c.s), pc |-> "END", used |-> c.used]
    [] OTHER -> c

RECURSIVE SoloAfter(_, _)
\* the run executed alone, with the same request, prompt files and model
\* responses, after n nodes
SoloAfter(run, n) ==
  IF n = 0
  THEN [s |-> initial_state(run.request), pc |-> "load_prompts", used |-> 0]
  ELSE SoloStep(run, SoloAfter(run, n - 1))

\* run r stands where, alone, it would stand as solo
AsAlone(r, solo) ==
  /\ \A o \in RunIds \ {r} : runs[o].ref # runs[r].ref
  /\ heap[runs[r].ref] = solo.s
  /\ runs[r].pc = "returned"
     => /\ solo.pc = "END"
        /\ runs[r].response = prepare_response(solo.s)

\* C13: two runs interleaved node by node share no PipelineState: they hold
\* different state objects, at every point each run's state is the one it
\* would have when executed alone, and its result is the result it would
\* return alone.
C13_RunsIndependent ==
  \A r \in RunIds : runs[r].ref # 0 => AsAlone(r, SoloAfter(runs[r], runs[r].steps))

\* the run that started second has returned a success while the run that
\* started first is about to retry its formatter
C13_Witness ==
  /\ runs[1].ref = 2
  /\ runs[2].ref = 1
  /\ runs[1].pc = "returned"
  /\ runs[1].response.success
  /\ runs[2].pc = "formatter_retry"
  /\ runs[1].request # runs[2].request

\* ------------------------------------------------------------------------
\* The event streams of POST /run/stream and POST /reformat/stream
\* ------------------------------------------------------------------------

\* tokens and progress events a model stream yields before it ends
MaxTokens == 2

Event(name) == [event |-> name, success |-> FALSE]

\* the "complete" event of generate_reformat_events
CompleteEvent(s) == [event |-> "complete", success |-> s.success]

IsTerminal(e) == e.event \in {"complete", "error"}

Yield(st, e) == [st EXCEPT !.events = Append(@, e)]

\* variant: the exception is logged and the stream just ends
except_branch_silent(st) == [st EXCEPT !.pc = "closed"]

\* `except Exception as e:` of generate_events and generate_reformat_events:
\* one "error" event, and the generator returns
except_branch(st) == [Yield(st, Event("error")) EXCEPT !.pc = "closed"]

StreamInit ==
  /\ stream \in
       { [endpoint |-> "run", pc |-> "begin", events |-> <<>>, tokens |-> 0,
          s |-> initial_state(r)] :
           r \in { q \in RunRequests : Upper(q.content_type) = S_MCQ
                                       /\ IsClaude(q.generator_model)
                                       /\ q.input_len <= max_input_chars } }
       \cup
       { [endpoint |-> "reformat", pc |-> "begin", events |-> <<>>,
          tokens |-> 0, s |-> initial_state(r)] : r \in ReformatRequests }
  /\ PipelineIdle
  /\ ValidatorIdle
  /\ CallIdle
  /\ ConcurrentIdle
  /\ AccessIdle
  /\ GenerationIdle

StreamFrame ==
  UNCHANGED <<pipeline_vars, validator_vars, call_vars, concurrent_vars,
              access_vars, generation_vars>>

\* generate_events: the initial event, then pipeline.run_stream_tokens
RunStreamStart ==
  /\ stream.endpoint = "run"
  /\ stream.pc = "begin"
  /\ stream' = [Yield(stream, Event("start")) EXCEPT !.pc = "inner"]
  /\ StreamFrame

\* run_stream_tokens yields a stage-tagged token or a progress event, which
\* generate_events passes on
RunStreamToken ==
  /\ stream.pc = "inner"
  /\ stream.tokens < MaxTokens
  /\ \E name \in {"progress", "token", "formatted_token"} :
       stream' = [Yield(stream, Event(name)) EXCEPT !.tokens = @ + 1]
  /\ StreamFrame

\* run_stream_tokens yields its terminal summary and ends; the `async for`
\* of generate_events ends with it
RunStreamTerminal ==
  /\ stream.pc = "inner"
  /\ \E name \in {"complete", "error"} :
       stream' = [Yield(stream, Event(name)) EXCEPT !.pc = "closed"]
  /\ StreamFrame

\* run_stream_tokens raises before its terminal summary
RunStreamRaises ==
  /\ stream.pc = "inner"
  /\ stream' = [stream EXCEPT !.pc = "except"]
  /\ StreamFrame

\* the except branch of either generator
StreamExcept ==
  /\ stream.pc = "except"
  /\ stream' = except_branch(stream)
  /\ StreamFrame

\* generate_reformat_events: ModelCaller(), state, load_prompts_node, first
\* progress event
ReformatStreamSetup ==
  /\ stream.endpoint = "reformat"
  /\ stream.pc = "begin"
  /\ stream' = [Yield(stream, Event("progress")) EXCEPT
                  !.pc = "formatting",
                  !.s = load_prompts_node(stream.s, prompt_files)]
  /\ StreamFrame

\* the set-up raises (a content_type that is not a string has no upper())
ReformatStreamSetupRaises ==
  /\ stream.endpoint = "reformat"
  /\ stream.pc = "begin"
  /\ stream' = [stream EXCEPT !.pc = "except"]
  /\ StreamFrame

\* stream_gemini yields a token chunk
ReformatStreamToken ==
  /\ stream.pc = "formatting"
  /\ stream.tokens < MaxTokens
  /\ stream' = [Yield(stream, Event("formatted_token")) EXCEPT !.tokens = @ + 1]
  /\ StreamFrame

\* stream_gemini yields its complete chunk and ends
ReformatStreamChunkComplete ==
  /\ stream.pc = "formatting"
  /\ \E full_content \in FormatterTexts :
       stream' = [stream EXCEPT
                    !.pc = "streamed",
                    !.s = [@ EXCEPT
                             !.formatted_output = full_content,
                             !.model_ids = [@ EXCEPT
                                              !.formatter = gemini_flash_model]]]
  /\ StreamFrame

\* stream_gemini raises
ReformatStreamRaises ==
  /\ stream.pc = "formatting"
  /\ stream' = [stream EXCEPT !.pc = "except"]
  /\ StreamFrame

\* the "validator" progress event
ReformatStreamValidating ==
  /\ stream.pc = "streamed"
  /\ stream' = [Yield(stream, Event("progress")) EXCEPT !.pc = "validate"]
  /\ StreamFrame

\* validator_node, then the "complete" event, the last statement of the try
ReformatStreamComplete ==
  /\ stream.pc = "validate"
  /\ stream' = [Yield(stream, CompleteEvent(validator_node(stream.s))) EXCEPT
                  !.pc = "closed",
                  !.s = validator_node(stream.s)]
  /\ StreamFrame

StreamNext ==
  \/ RunStreamStart
  \/ RunStreamToken
  \/ RunStreamTerminal
  \/ RunStreamRaises
  \/ StreamExcept
  \/ ReformatStreamSetup
  \/ ReformatStreamSetupRaises
  \/ ReformatStreamToken
  \/ ReformatStreamChunkComplete
  \/ ReformatStreamRaises
  \/ ReformatStreamValidating
  \/ ReformatStreamComplete

SpecStream == StreamInit /\ [][StreamNext]_vars

TerminalEvents == { i \in DOMAIN stream.events : IsTerminal(stream.events[i]) }

\* C14: a stream holds at most one terminal event (complete or error),
\* nothing follows it, and a stream that has ended holds exactly one.
C14_TerminatedOnce ==
  /\ Cardinality(TerminalEvents) <= 1
  /\ \A i \in TerminalEvents : i = Len(stream.events)
  /\ stream.pc = "closed" => Cardinality(TerminalEvents) = 1
  /\ TerminalEvents # {} => stream.pc = "closed"

C14_Witness ==
  /\ stream.endpoint = "reformat"
  /\ stream.pc = "closed"
  /\ stream.tokens = MaxTokens
  /\ Len(stream.events) = MaxTokens + 3
  /\ stream.events[Len(stream.events)].event = "complete"
  /\ stream.events[Len(stream.events)].success

\* ------------------------------------------------------------------------
\* Model restrictions: ModelManager and the check in front of /run
\* ------------------------------------------------------------------------

\* the keys of ALL_MODELS
ALL_MODELS ==
  { "claude-sonnet-4-5-20250929", "claude-opus-4-1-20250805",
    "gemini-2.5-pro", "gemini-2.5-flash" }

\* generator_model values of a /run request: three known ids and one that
\* ALL_MODELS does not hold
RequestedModels ==
  { "claude-sonnet-4-5-20250929", "gemini-2.5-pro", "gemini-2.5-flash",
    "gpt-4" }

\* the role of auth_info
Roles == { "admin", "editor" }

\* allowed_models lists an admin may send: up to two of two known ids and
\* one unknown id, repetitions included
AllowedLists ==
  LET ids == { "claude-sonnet-4-5-20250929", "gemini-2.5-pro", "gpt-4" } IN
  { <<>> } \cup { <<a>> : a \in ids }
  \cup { <<a, b>> : a, b \in ids }

\* MODEL_RESTRICTIONS_FILE holding what a failed write left of a document
CorruptFile == [kind |-> "corrupt", enabled |-> FALSE, allowed_models |-> <<>>]

JsonFile(saved) ==
  [kind |-> "json", enabled |-> saved.enabled,
   allowed_models |-> saved.allowed_models]

\* ModelManager.load_restrictions
load_restrictions(file) ==
  IF file.kind = "json"
  THEN [enabled |-> file.enabled, allowed_models |-> file.allowed_models]
  ELSE [enabled |-> FALSE, allowed_models |-> <<>>]

\* ModelManager.is_model_allowed
is_model_allowed(file, model_id, user_role) ==
  IF user_role = "admin" THEN TRUE
  ELSE IF ~load_restrictions(file).enabled THEN TRUE
  ELSE IF load_restrictions(file).allowed_models = <<>> THEN TRUE
  ELSE \E k \in DOMAIN load_restrictions(file).allowed_models :
         load_restrictions(file).allowed_models[k] = model_id

\* ModelManager.update_restrictions: the restrictions it saves
update_restrictions(enabled, allowed_models) ==
  [enabled |-> enabled,
   allowed_models |-> SelectSeq(allowed_models, LAMBDA m : m \in ALL_MODELS)]

AccessInit ==
  /\ AccessIdle
  /\ GenerationIdle
  /\ PipelineIdle
  /\ ValidatorIdle
  /\ CallIdle
  /\ ConcurrentIdle
  /\ StreamIdle

AccessFrame ==
  UNCHANGED <<pipeline_vars, validator_vars, call_vars, concurrent_vars,
              stream_vars, generation_vars>>

\* POST /api/models/restrictions by a caller who is not an admin: 403
UpdateRestrictionsDenied ==
  /\ \E enabled \in BOOLEAN, allowed_models \in AllowedLists :
       access' = [update |-> [status |-> 403, enabled |-> enabled,
                              allowed_models |-> allowed_models],
                  run |-> NoRunRequest]
  /\ UNCHANGED restrictions
  /\ AccessFrame

\* POST /api/models/restrictions by an admin, the file written
UpdateRestrictions ==
  /\ \E enabled \in BOOLEAN, allowed_models \in AllowedLists :
       /\ restrictions' = JsonFile(update_restrictions(enabled, allowed_models))
       /\ access' = [update |-> [status |-> 200, enabled |-> enabled,
                                 allowed_models |-> allowed_models],
                     run |-> NoRunRequest]
  /\ AccessFrame

\* POST /api/models/restrictions by an admin, save_restrictions caught an
\* IOError: the file was not opened, or was truncated and not written
UpdateRestrictionsFails ==
  /\ \E enabled \in BOOLEAN, allowed_models \in AllowedLists :
       access' = [update |-> [status |-> 500, enabled |-> enabled,
                              allowed_models |-> allowed_models],
                  run |-> NoRunRequest]
  /\ restrictions' \in {restrictions, CorruptFile}
  /\ AccessFrame

\* POST /run: the model check, then pipeline.run
RunPipelineRequest ==
  /\ \E user_role \in Roles, generator_model \in RequestedModels :
       access' =
         [access EXCEPT
            !.run = [role |-> user_role, generator_model |-> generator_model,
                     status |-> IF is_model_allowed(restrictions,
                                                    generator_model, user_role)
                                THEN 200 ELSE 403,
                     invoked |-> is_model_allowed(restrictions, generator_model,
                                                  user_role)]]
  /\ UNCHANGED restrictions
  /\ AccessFrame

AccessNext ==
  \/ UpdateRestrictionsDenied
  \/ UpdateRestrictions
  \/ UpdateRestrictionsFails
  \/ RunPipelineRequest

SpecAccess == AccessInit /\ [][AccessNext]_vars

\* the last call of the restrictions endpoint enabled restrictions with a
\* list that is not empty, and a /run request was answered since
RestrictedRun ==
  /\ access.update.status = 200
  /\ access.update.enabled
  /\ access.update.allowed_models # <<>>
  /\ access.run.status # 0

\* C29: once an admin has enabled restrictions with a non-empty list L, a
\* /run request of a non-admin naming a model that is not in L is answered
\* 403 and pipeline.run is not invoked, and a request of an admin is let
\* through for every model.
C29_RestrictedModelRejected ==
  RestrictedRun
  => /\ (/\ access.run.role # "admin"
         /\ \A k \in DOMAIN access.update.allowed_models :
              access.update.allowed_models[k] # access.run.generator_model)
          => (access.run.status = 403 /\ ~access.run.invoked)
     /\ access.run.role = "admin" => access.run.invoked

\* ------------------------------------------------------------------------
\* Prompt templates written while a run is in flight
\* ------------------------------------------------------------------------

\* the prompt files as shipped
ShippedPrompts ==
  [mcq_generator |-> "mcq.generator", mcq_formatter |-> "mcq.formatter",
   nmcq_generator |-> "nonmcq.generator", nmcq_formatter |-> "nonmcq.formatter",
   summary_generator |-> "summarybytes.generator",
   summary_formatter |-> "summarybytes.formatter"]

\* the keys of a POST /api/prompts body
PromptKeys == {"mcq_formatter", "nmcq_formatter", "summary_formatter"}

\* runs of every content type with a known generator and an input within
\* the limit, the generator's key set
PromptsInit ==
  /\ request \in { r \in RunRequests :
                     /\ IsClaude(r.generator_model)
                     /\ r.input_len = max_input_chars }
  /\ env \in { e \in Environments : e.anthropic_key }
  /\ prompt_files = ShippedPrompts
  /\ state = initial_state(request)
  /\ pc = "load_prompts"
  /\ steps = 0
  /\ response = NoResponse
  /\ trace = <<>>
  /\ ValidatorIdle
  /\ CallIdle
  /\ ConcurrentIdle
  /\ StreamIdle
  /\ AccessIdle
  /\ GenerationIdle

\* POST /api/prompts by an admin with one key: the file is rewritten. The
\* history keeps the write among the nodes of the run it interleaves with.
UpdatePrompts ==
  /\ pc # "returned"
  /\ Visits("update_prompts") = {}
  /\ \E key \in PromptKeys :
       /\ prompt_files' = [prompt_files EXCEPT ![key] = "edited"]
       /\ trace' = Append(trace, Visit("update_prompts", FALSE, FALSE, key,
                                       None))
  /\ UNCHANGED <<request, env, state, pc, steps, response>>
  /\ UNCHANGED beyond_pipeline

PromptsNext ==
  \/ LoadPrompts
  \/ Generator
  \/ Formatter
  \/ Validator
  \/ FormatterRetry
  \/ Done
  \/ Fail
  \/ Return
  \/ RecursionError
  \/ UpdatePrompts

SpecPrompts == PromptsInit /\ [][PromptsNext]_vars

\* the prompt file load_prompts_node reads for the content type of the run
FormatterFile ==
  load_prompts_node(state, prompt_files).prompts.formatter

\* C32: every formatter execution of a run uses the formatter prompt that
\* LoadPrompts captured, whatever was written to the prompt files since.
C32_PromptCapturedOnce ==
  \A i \in FormatterVisits :
    /\ trace[i].prompt = state.prompts.formatter
    /\ \A j \in FormatterVisits : trace[j].prompt = trace[i].prompt

\* a prompt file of the run was rewritten after LoadPrompts, and a formatter
\* attempt and a retry followed the write
C32_Witness ==
  \E u \in Visits("update_prompts") :
    /\ \E l \in Visits("load_prompts") : l < u
    /\ FormatterFile = "edited"
    /\ \E i, j \in FormatterVisits : u < i /\ i < j

\* ------------------------------------------------------------------------
\* generator_node: the prompt built from the generator template
\*
\* A text is a sequence of tokens: each placeholder is one token, any other
\* run of characters is one token too.

TEXT_TO_ANALYZE == "{{TEXT_TO_ANALYZE}}"

NUM_QUESTIONS == "{{NUM_QUESTIONS}}"

FOCUS_AREAS == "{{FOCUS_AREAS}}"

Placeholders == { TEXT_TO_ANALYZE, NUM_QUESTIONS, FOCUS_AREAS }

MaxTemplateLen == 3

MaxTextLen == 2

\* the generator templates a prompt file can hold
Templates ==
  UNION { [1..k -> Placeholders \cup {"text"}] : k \in 0..MaxTemplateLen }

\* the source texts a caller can send: nothing keeps a placeholder out of one
SourceTexts ==
  UNION { [1..k -> Placeholders \cup {"text"}] : k \in 1..MaxTextLen }

NumQuestions == { 1, 5 }

\* focus_areas of the request: absent, empty, or a text
FocusAreas ==
  { [given |-> FALSE, text |-> <<>>], [given |-> TRUE, text |-> <<>>],
    [given |-> TRUE, text |-> <<"cardiology">>],
    [given |-> TRUE, text |-> <<NUM_QUESTIONS>>] }

\* str.replace(old, new): each occurrence of old, left to right, gives way to
\* new; what was put in is not scanned again within the same call
RECURSIVE replace(_, _, _)
replace(text, old, new) ==
  IF text = <<>> THEN <<>>
  ELSE (IF Head(text) = old THEN new ELSE <<Head(text)>>)
       \o replace(Tail(text), old, new)

\* str(num_questions)
str(n) == <<CASE n = 1 -> "1" [] n = 5 -> "5">>

\* state.get("focus_areas") or "Not specified"
focus_or_default(focus_areas) ==
  IF focus_areas.given /\ focus_areas.text # <<>> THEN focus_areas.text
  ELSE <<"Not specified">>

\* each token of the template replaced by its value, the values left as
\* they are
RECURSIVE Filled(_, _, _, _)
Filled(template, input_text, num_questions, focus_areas) ==
  IF template = <<>> THEN <<>>
  ELSE (CASE Head(template) = TEXT_TO_ANALYZE -> input_text
          [] Head(template) = NUM_QUESTIONS -> str(num_questions)
          [] Head(template) = FOCUS_AREAS -> focus_or_default(focus_areas)
          [] OTHER -> <<Head(template)>>)
       \o Filled(Tail(template), input_text, num_questions, focus_areas)

\* generator_node: the three replacements, one after the other
generator_prompt(template, input_text, num_questions, focus_areas) ==
  replace(replace(replace(template, TEXT_TO_ANALYZE, input_text),
                  NUM_QUESTIONS, str(num_questions)),
          FOCUS_AREAS, focus_or_default(focus_areas))

GenerationInit ==
  /\ generation \in [called : {FALSE}, template : Templates,
                     input_text : SourceTexts, num_questions : NumQuestions,
                     focus_areas : FocusAreas, prompt : {<<>>}]
  /\ PipelineIdle
  /\ ValidatorIdle
  /\ CallIdle
  /\ ConcurrentIdle
  /\ StreamIdle
  /\ AccessIdle

\* generator_node with an input within the limit, up to the model call
GeneratorPrompt ==
  /\ ~generation.called
  /\ generation' =
       [generation EXCEPT
          !.called = TRUE,
          !.prompt = generator_prompt(generation.template,
                                      generation.input_text,
                                      generation.num_questions,
                                      generation.focus_areas)]
  /\ UNCHANGED <<pipeline_vars, validator_vars, call_vars, concurrent_vars,
                 stream_vars, access_vars>>

GenerationNext == GeneratorPrompt

SpecGeneration == GenerationInit /\ [][GenerationNext]_vars

\* C40: the generator prompt is the template with each placeholder replaced
\* by the caller's value ('Not specified' for an absent or empty focus), and
\* the source text stands in it as sent: a placeholder inside the source
\* text is not replaced.
C40_PromptIsFilledTemplate ==
  generation.called
  => generation.prompt = Filled(generation.template, generation.input_text,
                                generation.num_questions,
                                generation.focus_areas)

====
